---- MODULE Spec2Model ----
(***************************************************************************)
(* Connection cache, query dispatcher and connector of grafana/sqlds.      *)
(*                                                                         *)
(* Two components own a connection cache (a sync.Map from cache key to a   *)
(* dbConnection{db, settings}):                                            *)
(*   - SQLDatasource (src/datasource.go, lines 1-335): NewDatasource,      *)
(*     QueryData / handleQuery / getDBConnectionFromQuery / dbReconnect,   *)
(*     Dispose;                                                            *)
(*   - Connector (src/connector.go): NewConnector, GetConnectionFromQuery, *)
(*     Reconnect, Connect / connectWithRetries, Dispose.                   *)
(* A behaviour exercises one of the two (variable component); the cache    *)
(* variable connections is ds.dbConnections or c.connections accordingly.  *)
(*                                                                         *)
(* Goroutines are the task slots 1..MaxTasks.  A step of a task is the     *)
(* code between two accesses to shared state (the cache, a handle, the     *)
(* driver); driver calls are nondeterministic in their outcome.            *)
(***************************************************************************)
EXTENDS Naturals, FiniteSets, Sequences, TLC, Integers

\* ------------------------------------------------------------------ bounds
MaxTasks == 2
MaxRetries == 2
\* the driver calls of one behaviour that do not succeed (a failed Connect,
\* Close or QueryContext); once spent, every further driver call succeeds
MaxFaults == 3
\* the most rows a driver returns for a query, and the largest row limit
MaxRows == 3
MaxRowLimit == 2
\* the most pieces a query text is made of
MaxPieces == 3

Tasks == 1..MaxTasks
RetriesRange == 0..MaxRetries

\* ----------------------------------------------------------- value domains
\* the datasource UID of the one instance modelled
UID == "uid"
\* raw ConnectionArgs of a query; "" is the empty / nil json.RawMessage
emptyConnArgs == ""
ArgsSet == {emptyConnArgs, "a"}
\* the RefIDs of a batch are pairwise distinct: the query run by goroutine t
\* carries RefID(t)
RefID(t) == <<"ref", t>>
RefIDs == {RefID(t) : t \in Tasks}
\* the settings snapshot passed at construction, and the zero value
InstanceSettings == "settings"
ZeroSettings == "zero"

\* a handle (*sql.DB) is named by the goroutine that opened it and the
\* ordinal of that open in the goroutine; <<0, 0>> is the handle opened at
\* construction, NoDB is the nil *sql.DB
NoDB == <<>>
InitialDB == <<0, 0>>
\* the zero dbConnection{} and a dbConnection{db, settings}
DbConnection(db, settings) == [db |-> db, settings |-> settings]
NoConn == DbConnection(NoDB, ZeroSettings)

\* cache keys
defaultKeySuffix == "default"
defaultKey(datasourceUID) == <<datasourceUID, defaultKeySuffix>>
keyWithConnectionArgs(datasourceUID, connArgs) == <<datasourceUID, connArgs>>
\* the Connector's key: the default key for empty args, else a key derived
\* from the args (one settings snapshot is modelled, so its timestamp is left
\* out of the key)
datasourceCacheKey(uid, connArgs) ==
    IF connArgs = emptyConnArgs THEN <<uid, defaultKeySuffix>>
    ELSE <<uid, "args", connArgs>>
\* connectWithRetries is handed the bare UID as its cache key
BareUIDKey == <<UID>>
NoKey == <<>>
Keys == {defaultKey(UID), BareUIDKey}
        \cup {keyWithConnectionArgs(UID, a) : a \in ArgsSet \ {emptyConnArgs}}
        \cup {datasourceCacheKey(UID, a) : a \in ArgsSet}

\* errors, by kind; match says whether the text contains an element of
\* RetryOn, attempt is the ordinal of the QueryDB call that produced it
Err(kind, match, attempt) == [kind |-> kind, match |-> match, attempt |-> attempt]
NilErr == Err("nil", FALSE, 0)
ErrorJSON == Err("ErrorJSON", FALSE, 0)
ErrorMacro == Err("macro", FALSE, 0)
ErrorMissingMultipleConnectionsConfig == Err("ErrorMissingMultipleConnectionsConfig", FALSE, 0)
ErrorMissingDBConnection == Err("ErrorMissingDBConnection", FALSE, 0)
ErrorConnect == Err("connect", FALSE, 0)

\* frames returned for a query
NilFrames == "nil"
ErrorFrame == "errorFrame"
DataFrames == "frames"

VARIABLES
    component,      \* "SQLDatasource" or "Connector"
    settings,       \* DriverSettings and EnableMultipleConnections
    lifecycle,      \* "new", "live", "failed", "disposed"
    connections,    \* the cache: key -> dbConnection, NoConn when absent
    closed,         \* handles on which Close has been called
    connectCalls,   \* number of calls of the driver's Connect
    task,           \* per goroutine: program counter and locals
    batch,          \* QueryData: "none", "running", "returned"
    wg,             \* the sync.WaitGroup counter of the batch
    responses,      \* the Response aggregator: RefID -> entry
    crashed,        \* an unrecovered panic ended the process
    faults,         \* driver calls that did not succeed so far
    rangeVisited,   \* Connector.Dispose: the keys its Range has visited
    disposeStart,   \* the cache as it was when Connector.Dispose started
    interfered,     \* a goroutine wrote the cache after Dispose started
    topLevelErr,    \* the error QueryData returned beside the response
    macros,         \* the macro table that driver.Macros() returns
    cancelled,      \* the context of the request in flight was cancelled
    run,            \* one invocation of the query runner (DBQuery.Run)
    health,         \* one health check (CheckHealth, HealthChecker.Check)
    async,          \* one call of the async query handler (handleAsyncQuery)
    cancelReq,      \* one request to the /cancel endpoint (cancelQuery)
    interp,         \* one call of interpolate, and a second pass over its result
    forward,        \* one request whose headers go to the driver's Connect
    exec,           \* one query, from its raw SQL to the frame returned
    classify,       \* one call of ClassifyError
    timed           \* one handleQuery and its timeout context

vars == <<component, settings, lifecycle, connections, closed, connectCalls,
          task, batch, wg, responses, crashed, faults,
          rangeVisited, disposeStart, interfered,
          topLevelErr, macros, cancelled, run, health, async, cancelReq, interp,
          forward, exec, classify, timed>>

\* the variables of the query dispatcher and those of Connector.Dispose
dispatcherVars == <<batch, wg, responses, crashed, topLevelErr, macros>>
disposeVars == <<rangeVisited, disposeStart, interfered>>
\* the operations that are specified one call at a time
callVars == <<run, health, async, cancelReq, interp, forward, exec, classify, timed>>
\* the request context and the calls specified on their own
contextVars == <<cancelled, callVars>>
\* the datasource, its goroutines and the context of their request
systemVars ==
    <<component, settings, lifecycle, connections, closed, connectCalls, task,
      faults, cancelled, dispatcherVars, disposeVars>>

\* ------------------------------------------------------------ task records
\* op is the operation the goroutine runs; cacheKey, dbConn, db, i and err
\* are the locals of that name; the other fields record what the goroutine
\* did: the QueryDB calls made (attempts), those that reached the driver's
\* execute (execs), whether each of them reached it and failed there with an
\* error matching RetryOn (allMatch), the handles opened (opens), whether the
\* Close of the running reconnect failed (closeFailed), how its connection
\* resolution went (resolution: "error", "cached", "miss" while its Connect is
\* pending, then "opened" or "failed"), and whether the resolution began
\* while the Connect of a sibling's resolution was pending (overlap), whether
\* one of its QueryDB calls reported ErrorNoResults (noResults), whether its
\* last QueryDB call returned frames and no error (succeeded), and whether each
\* of its QueryDB calls that failed reached execute and failed there with an
\* error matching RetryOn (failedMatch)
IdleTask ==
    [pc |-> "idle", op |-> "none", refID |-> <<>>, args |-> emptyConnArgs,
     input |-> "ok", cacheKey |-> NoKey, dbConn |-> NoConn, db |-> NoDB,
     i |-> 0, err |-> NilErr, execs |-> 0, attempts |-> 0,
     allMatch |-> TRUE, opens |-> 0, closeFailed |-> FALSE,
     resolution |-> "none", overlap |-> FALSE, noResults |-> FALSE,
     succeeded |-> FALSE, failedMatch |-> TRUE]

\* the Connect of the connection resolution of some goroutine other than t
\* is pending
Overlaps(t) ==
    \E u \in Tasks \ {t} : task[u].pc \in {"Connect", "driverConnect"}

\* a goroutine that has returned: its locals are gone, what it did stays
Returned(tk) ==
    [tk EXCEPT !.pc = "done", !.cacheKey = NoKey, !.dbConn = NoConn,
               !.db = NoDB, !.i = 0, !.closeFailed = FALSE]

\* what reaches handleQuery for one backend.DataQuery: the
\* connectionArgs of the JSON payload, whether the payload decodes, and what
\* the macro expansion of its SQL does.  The args are read only by a query
\* that decodes and interpolates.
Queries ==
    [args : ArgsSet, input : {"ok"}]
    \cup [args : {emptyConnArgs}, input : {"badJSON", "macroError", "macroPanic"}]

\* outcomes of one QueryDB call on an open handle, by what handleQuery
\* distinguishes: success, ErrorNoResults, ErrorQuery whose text does or does
\* not contain an element of RetryOn, context.Canceled, an error wrapping
\* context.DeadlineExceeded, any other error
Outcomes ==
    {"ok", "ErrorNoResults", "ErrorQueryMatch", "ErrorQueryNoMatch",
     "Canceled", "DeadlineExceeded", "other"}

\* --------------------------------------------------- health check: one call
\* backend.CheckHealthResult
CheckHealthResult(status, message) == [Status |-> status, Message |-> message]
\* no result: the nil *backend.CheckHealthResult
NoResult == <<>>
\* the result of a probe that succeeded
HealthOk == CheckHealthResult("Ok", "Data source is working")
\* the result of a probe that failed with err: Message is err.Error()
HealthError(err) == CheckHealthResult("Error", err)

\* no health check.  impl is the implementation called, retries is
\* DriverSettings.Retries, hasDefault says whether the cache holds the
\* default connection, pre and post are the results of the driver's
\* PreCheckHealth and PostCheckHealth hooks ("absent" for none); i is the
\* loop counter, pings and connects count the calls of Ping and of the
\* driver's Connect, allMatch says that every ping so far failed with an
\* error containing an element of RetryOn; result and err are what the call
\* returned
IdleHealth ==
    [pc |-> "idle", impl |-> "SQLDatasource", retries |-> 0, hasDefault |-> TRUE,
     pre |-> "absent", post |-> "absent", i |-> 0, pings |-> 0, connects |-> 0,
     allMatch |-> TRUE, result |-> NoResult, err |-> NilErr]

\* ------------------------------------------------ async query: one request
\* the frames of an async request: nil, the error frame of the query, one
\* frame without rows whose meta is queryMeta{QueryID, Status}, or the
\* frames of the fetched rows
AsyncFrames(kind, queryID, status) ==
    [kind |-> kind, QueryID |-> queryID, Status |-> status]
NoAsyncFrames == AsyncFrames("nil", "", "")
AsyncErrorFrame == AsyncFrames("errorFrame", "", "")
MetaFrame(queryID, status) == AsyncFrames("meta", queryID, status)
RowFrames == AsyncFrames("frames", "", "")

\* no async request.  queryID is Query.QueryID, knownID is the ID under which
\* the driver already runs the query's SQL ("" for none); starts, polls and
\* fetches count the calls of StartQuery, of QueryStatus and of queryAsync,
\* status is the status of the last poll, retried says that the fetch at
\* hand is the one after the reconnect; frames and err are the results
IdleAsync ==
    [pc |-> "idle", queryID |-> "", knownID |-> "", starts |-> 0, polls |-> 0,
     fetches |-> 0, status |-> "none", retried |-> FALSE,
     frames |-> NoAsyncFrames, err |-> NilErr]

\* ------------------------------------------- cancel endpoint: one request
\* no /cancel request.  body is what the request body decodes to: "none" for
\* no body, "badJSON", "{}" for options without queryId, or the queryId
\* ("" included); hasPlugin says that the context carries the datasource
\* settings, hasDefault that the cache holds the default connection,
\* hasAsyncDB that this connection has an async handle; cached is ds.cache
\* (the IDs with cached metadata) at the request, cache is ds.cache now,
\* calls is the sequence of IDs CancelQuery was called with, cancelErr its
\* error, status the HTTP status written (0 for none yet)
IdleCancel ==
    [pc |-> "idle", body |-> "none", hasPlugin |-> TRUE, hasDefault |-> TRUE,
     hasAsyncDB |-> TRUE, cached |-> {}, cache |-> {}, calls |-> <<>>,
     cancelErr |-> FALSE, status |-> 0]

\* ------------------------------------------- header forwarding: one request
\* A json.RawMessage is absent (nil), the text null, the text of a JSON
\* object, or another text (an array, a string, a text that is not JSON).  An
\* object is the function from its keys to their values; the values here are
\* objects of string arrays, which is what an http.Header marshals to.
NoObject == <<>>
Raw(kind, fields) == [kind |-> kind, fields |-> fields]
RawNil == Raw("nil", NoObject)

\* no request: path is the operation that receives it ("query" or "health"),
\* forward is DriverSettings.ForwardHeaders, args the ConnectionArgs of the
\* query JSON, headers the headers of the request, q the ConnectionArgs of the
\* Query once it is decoded, cached whether the cache has the key of q,
\* connects counts the calls of the driver's Connect and connArgs is what the
\* last of them received
IdleForward ==
    [pc |-> "idle", path |-> "query", forward |-> FALSE, args |-> RawNil,
     headers |-> NoObject, q |-> RawNil, cached |-> FALSE, connects |-> 0,
     connArgs |-> RawNil, panicked |-> FALSE]

\* --------------------------------------------- executed SQL: one query
\* a frame and the ExecutedQueryString of its Meta; NoFrame is data.Frames nil
Frame(kind, executed) == [kind |-> kind, executed |-> executed]
NoFrame == Frame("nil", <<>>)

\* no query: rawSQL is the RawSQL of the request, format the Format of the
\* query, long whether the rows make a long time series, zeroRows whether the
\* query has no rows, fails the number of QueryContext calls the driver fails
\* before it answers, retries is DriverSettings.Retries; sql is q.RawSQL,
\* passed the SQL texts handed to QueryContext, in order, frame and err the
\* results of handleQuery
IdleExec ==
    [pc |-> "idle", rawSQL |-> <<>>, format |-> "table", long |-> FALSE,
     zeroRows |-> FALSE, fails |-> 0, retries |-> 0, sql |-> <<>>,
     passed |-> <<>>, attempt |-> 0, firstErr |-> "nil", frame |-> NoFrame,
     err |-> "nil"]

\* ----------------------------------------------- ClassifyError: one call
\* an error value: its text, whether errors.Is finds ErrorRowValidation in
\* it, and whether it is marked downstream; NoError is the nil error
ErrorValue(text, rowValidation, downstream) ==
    [isNil |-> FALSE, text |-> text, rowValidation |-> rowValidation,
     downstream |-> downstream]
NoError == [isNil |-> TRUE, text |-> <<>>, rowValidation |-> FALSE, downstream |-> FALSE]

\* no call: err is the argument, source and out are the two results
IdleClassify == [pc |-> "idle", err |-> NoError, source |-> "", out |-> NoError]

\* ------------------------------------------ query timeout: one handleQuery
\* no query: timeout is whether DriverSettings.Timeout is not zero, retries
\* and pause are Retries and whether Pause is positive; created counts the
\* calls of context.WithTimeout, ctx is the context handleQuery holds
\* ("parent" for the one it was called with, "tctx" for the one it made),
\* expired whether the deadline of tctx has passed, released whether its
\* cancel function has been called, used the context of each QueryDB call and
\* whether the deadline had passed when it began, loop the retry loop
\* entered, i its counter, result what handleQuery returned
IdleTimed ==
    [pc |-> "idle", timeout |-> FALSE, retries |-> 0, pause |-> FALSE,
     created |-> 0, ctx |-> "parent", expired |-> FALSE, released |-> FALSE,
     used |-> <<>>, loop |-> "none", i |-> 0, result |-> "none"]

\* ----------------------------------------------------- interpolate: one call
\* no interpolation.  A text is the sequence of its characters.  sql is
\* Query.RawSQL, order the order in which the range over the macro table
\* visits its keys, out the SQL interpolate returns, out2 the SQL a second
\* call returns for out
IdleInterpolate ==
    [pc |-> "idle", sql |-> <<>>, order |-> <<>>, out |-> <<>>, out2 |-> <<>>]

\* ------------------------------------------- query runner: one invocation
\* One invocation of DBQuery.Run.  Its inputs are what the connection and the
\* frame conversion do: QueryContext returns a rows cursor or fails with an
\* error that errors.Is context.Canceled, that errors.Is
\* context.DeadlineExceeded, or with another error (match: its text contains
\* an element of RetryOn); rows.Err() is nil, sql.ErrNoRows, a deadline error
\* or another error; getFrames returns frames, ErrorNoResults, another error,
\* or a converter panics.
QueryContextResults == {"rows", "Canceled", "DeadlineExceeded", "other"}
RowsErrResults == {"nil", "ErrNoRows", "DeadlineExceeded", "other"}
GetFramesResults == {"frames", "ErrorNoResults", "convertError", "panic"}

\* the row limits a datasource can have: -1 for none, or a positive number
RowLimits == {-1} \cup (1..MaxRowLimit)

\* no invocation: calls counts the QueryContext calls, cursor is the state of
\* the rows cursor ("none", "open", "closed"), frames and err are the results;
\* rows is the number of rows the driver returns for the query, rowLimit the
\* row limit of the datasource, frameRows the number of rows of the frame
IdleRun ==
    [pc |-> "idle", queryContext |-> "rows", rowsErr |-> "nil",
     getFrames |-> "frames", match |-> FALSE, calls |-> 0, cursor |-> "none",
     frames |-> NilFrames, err |-> NilErr, rows |-> 0, rowLimit |-> -1,
     frameRows |-> 0]

\* the names of the macros of DefaultMacros; a macro table is the set of the
\* names it defines
DefaultMacros == {"timeFilter", "timeFrom", "timeGroup", "timeTo", "table", "column"}

\* the macro table after interpolate has run on it: each default macro the
\* driver does not define is written into the map driver.Macros() returned
Interpolated(table) == table \cup DefaultMacros

\* ------------------------------------------------------------------- Init
\* DriverSettings.Errors and the macro table belong to the query dispatcher;
\* the Connector has neither QueryData nor interpolation, its instances are
\* drawn with one value of each
Init ==
    /\ component \in {"SQLDatasource", "Connector"}
    /\ settings \in [Retries : RetriesRange, EnableMultipleConnections : BOOLEAN,
                     Errors : BOOLEAN]
    /\ lifecycle = "new"
    /\ connections = [k \in Keys |-> NoConn]
    /\ closed = {}
    /\ connectCalls = 0
    /\ task = [t \in Tasks |-> IdleTask]
    /\ batch = "none"
    /\ wg = 0
    /\ responses = [r \in RefIDs |-> <<>>]
    /\ crashed = FALSE
    /\ faults = 0
    /\ rangeVisited = {}
    /\ disposeStart = [k \in Keys |-> NoConn]
    /\ interfered = FALSE
    /\ topLevelErr = NilErr
    /\ macros \in {{}, DefaultMacros}
    /\ component = "Connector" => (~settings.Errors /\ macros = {})
    /\ cancelled = FALSE
    /\ run = IdleRun
    /\ health = IdleHealth
    /\ async = IdleAsync
    /\ cancelReq = IdleCancel
    /\ interp = IdleInterpolate
    /\ forward = IdleForward
    /\ exec = IdleExec
    /\ classify = IdleClassify
    /\ timed = IdleTimed

\* ------------------------------------------------------------- the driver
\* a driver call may fail while the fault budget lasts
MayFail == faults < MaxFaults
\* the outcomes of Connect, Close and Ping: success or failure
CallOutcomes == IF MayFail THEN BOOLEAN ELSE {TRUE}
Charged(ok) == IF ok THEN faults ELSE faults + 1

\* -------------------------------------------------------- cache primitives
getDBConnection(cache, key) ==
    [conn |-> cache[key], ok |-> cache[key] # NoConn]

storeDBConnection(cache, key, dbConn) ==
    [cache EXCEPT ![key] = dbConn]

\* ------------------------------------------------- SQLDatasource: lifecycle
\* a NewDatasource that does not store the connection it opened
NewDatasourceNoStore ==
    /\ component = "SQLDatasource"
    /\ lifecycle = "new"
    /\ connectCalls' = connectCalls + 1
    /\ \E ok \in CallOutcomes :
         /\ faults' = Charged(ok)
         /\ lifecycle' = IF ok THEN "live" ELSE "failed"
    /\ UNCHANGED disposeVars
    /\ UNCHANGED <<component, settings, connections, closed, task, batch, wg,
                   responses, crashed>>
    /\ UNCHANGED <<topLevelErr, macros>>
    /\ UNCHANGED contextVars
\* NewDatasource: Connect with nil args; on success the default entry is
\* stored
NewDatasource ==
    /\ component = "SQLDatasource"
    /\ lifecycle = "new"
    /\ connectCalls' = connectCalls + 1
    /\ \E ok \in CallOutcomes :
         /\ faults' = Charged(ok)
         /\ IF ok
            THEN /\ connections' = storeDBConnection(connections, defaultKey(UID),
                                       DbConnection(InitialDB, InstanceSettings))
                 /\ lifecycle' = "live"
            ELSE /\ connections' = connections
                 /\ lifecycle' = "failed"
    /\ UNCHANGED disposeVars
    /\ UNCHANGED <<component, settings, closed, task, batch, wg, responses, crashed>>
    /\ UNCHANGED <<topLevelErr, macros>>
    /\ UNCHANGED contextVars

\* a Dispose that closes every cached handle and empties the cache
DisposeDatasourceClosing ==
    /\ component = "SQLDatasource"
    /\ lifecycle = "live"
    /\ lifecycle' = "disposed"
    /\ closed' = closed \cup {connections[k].db : k \in {j \in Keys : connections[j] # NoConn}}
    /\ connections' = [k \in Keys |-> NoConn]
    /\ UNCHANGED disposeVars
    /\ UNCHANGED <<component, settings, connectCalls,
                   task, batch, wg, responses, crashed, faults>>
    /\ UNCHANGED <<topLevelErr, macros>>
    /\ UNCHANGED contextVars
\* SQLDatasource.Dispose has an empty body
DisposeDatasource ==
    /\ component = "SQLDatasource"
    /\ lifecycle = "live"
    /\ lifecycle' = "disposed"
    /\ UNCHANGED disposeVars
    /\ UNCHANGED <<component, settings, connections, closed, connectCalls,
                   task, batch, wg, responses, crashed, faults>>
    /\ UNCHANGED <<topLevelErr, macros>>
    /\ UNCHANGED contextVars

\* ------------------------------------------ SQLDatasource: query dispatcher
\* QueryData, the fan-out: one goroutine per query, wg.Add(len(req.Queries))
QueryData ==
    /\ component = "SQLDatasource"
    /\ ~crashed
    /\ lifecycle \in {"live", "failed"}
    /\ batch = "none"
    /\ \E n \in 0..MaxTasks : \E qs \in [1..n -> Queries] :
         /\ task' = [t \in Tasks |->
                        IF t <= n
                        THEN [IdleTask EXCEPT !.pc = "handleQuery",
                                              !.op = "handleQuery",
                                              !.refID = RefID(t),
                                              !.args = qs[t].args,
                                              !.input = qs[t].input]
                        ELSE task[t]]
         /\ wg' = n
    /\ batch' = "running"
    /\ UNCHANGED disposeVars
    /\ UNCHANGED <<component, settings, lifecycle, connections, closed,
                   connectCalls, responses, crashed, faults>>
    /\ UNCHANGED <<topLevelErr, macros>>
    /\ UNCHANGED contextVars

\* backend.DataResponse{Frames: frames, Error: err}
DataResponse(frames, err) == [Frames |-> frames, Error |-> err]

\* Response.Set of the response aggregator: the per-RefID map with the entry
\* of refID set to res, safe under concurrent calls
Set(res, refID, dataResponse) == [res EXCEPT ![refID] = dataResponse]

\* the tail of a query goroutine: response.Set(query.RefID, ...); wg.Done()
ResponseSet(t, tk, frames, err) ==
    /\ task' = [task EXCEPT ![t] = Returned(tk)]
    /\ responses' = Set(responses, tk.refID, DataResponse(frames, err))
    /\ wg' = wg - 1

\* a barrier that lets the last goroutine go unawaited
WaitReturnsEarly(counter) == counter <= 1
\* wg.Wait() returns when the counter of the WaitGroup is zero
WaitReturns(counter) == counter = 0

\* QueryData, the barrier: wg.Wait(); return response.Response(), nil.  The
\* error returned is nil whatever the entries of the response hold;
\* driverSettings.Errors is not read.
QueryDataReturn ==
    /\ component = "SQLDatasource"
    /\ ~crashed
    /\ batch = "running"
    /\ WaitReturns(wg)
    /\ batch' = "returned"
    /\ topLevelErr' = NilErr
    /\ UNCHANGED disposeVars
    /\ UNCHANGED <<component, settings, lifecycle, connections, closed,
                   connectCalls, task, wg, responses, crashed, faults>>
    /\ UNCHANGED macros
    /\ UNCHANGED contextVars

\* a lookup that never finds the entry of the connection args
getDBConnectionFromQueryNoHit(cache, enableMultipleConnections, connArgs) ==
    LET key == defaultKey(UID)
        dflt == getDBConnection(cache, key)
        argsKey == keyWithConnectionArgs(UID, connArgs)
    IN  IF ~enableMultipleConnections /\ connArgs # emptyConnArgs
        THEN [status |-> "error", key |-> NoKey, dbConn |-> NoConn,
              err |-> ErrorMissingMultipleConnectionsConfig]
        ELSE IF ~dflt.ok
        THEN [status |-> "error", key |-> NoKey, dbConn |-> NoConn,
              err |-> ErrorMissingDBConnection]
        ELSE IF ~enableMultipleConnections \/ connArgs = emptyConnArgs
        THEN [status |-> "cached", key |-> key, dbConn |-> dflt.conn, err |-> NilErr]
        ELSE [status |-> "miss", key |-> argsKey, dbConn |-> dflt.conn, err |-> NilErr]
\* getDBConnectionFromQuery up to its cache lookups: an error, a cached
\* connection, or a miss that goes on to Connect
getDBConnectionFromQuery(cache, enableMultipleConnections, connArgs) ==
    LET key == defaultKey(UID)
        dflt == getDBConnection(cache, key)
        argsKey == keyWithConnectionArgs(UID, connArgs)
        cached == getDBConnection(cache, argsKey)
    IN  IF ~enableMultipleConnections /\ connArgs # emptyConnArgs
        THEN [status |-> "error", key |-> NoKey, dbConn |-> NoConn,
              err |-> ErrorMissingMultipleConnectionsConfig]
        ELSE IF ~dflt.ok
        THEN [status |-> "error", key |-> NoKey, dbConn |-> NoConn,
              err |-> ErrorMissingDBConnection]
        ELSE IF ~enableMultipleConnections \/ connArgs = emptyConnArgs
        THEN [status |-> "cached", key |-> key, dbConn |-> dflt.conn, err |-> NilErr]
        ELSE IF cached.ok
        THEN [status |-> "cached", key |-> argsKey, dbConn |-> cached.conn, err |-> NilErr]
        ELSE [status |-> "miss", key |-> argsKey, dbConn |-> dflt.conn, err |-> NilErr]

\* handleQuery from its entry to the connection lookup: GetQuery,
\* Interpolate, getDBConnectionFromQuery.  A panic of a macro expander is
\* not recovered in the goroutine and ends the process.  A query that decodes
\* is interpolated, which fills the driver's macro table.
HandleQueryBegin(t) ==
    /\ component = "SQLDatasource"
    /\ ~crashed
    /\ task[t].pc = "handleQuery"
    /\ LET tk == task[t]
           r == getDBConnectionFromQuery(connections,
                    settings.EnableMultipleConnections, tk.args)
       IN  CASE tk.input = "badJSON" ->
                  /\ ResponseSet(t, tk, NilFrames, ErrorJSON)
                  /\ UNCHANGED crashed
             [] tk.input = "macroError" ->
                  /\ ResponseSet(t, tk, ErrorFrame, ErrorMacro)
                  /\ UNCHANGED crashed
             [] tk.input = "macroPanic" ->
                  /\ crashed' = TRUE
                  /\ task' = [task EXCEPT ![t].pc = "panicked"]
                  /\ UNCHANGED <<responses, wg>>
             [] tk.input = "ok" /\ r.status = "error" ->
                  /\ ResponseSet(t, [tk EXCEPT !.resolution = "error",
                                               !.overlap = Overlaps(t)],
                                 ErrorFrame, r.err)
                  /\ UNCHANGED crashed
             [] tk.input = "ok" /\ r.status = "cached" ->
                  /\ task' = [task EXCEPT ![t] =
                                [tk EXCEPT !.pc = "QueryDB", !.cacheKey = r.key,
                                           !.dbConn = r.dbConn, !.db = r.dbConn.db,
                                           !.resolution = "cached",
                                           !.overlap = Overlaps(t)]]
                  /\ UNCHANGED <<responses, wg, crashed>>
             [] tk.input = "ok" /\ r.status = "miss" ->
                  /\ task' = [task EXCEPT ![t] =
                                [tk EXCEPT !.pc = "Connect", !.cacheKey = r.key,
                                           !.dbConn = r.dbConn,
                                           !.resolution = "miss",
                                           !.overlap = Overlaps(t)]]
                  /\ UNCHANGED <<responses, wg, crashed>>
    /\ UNCHANGED disposeVars
    /\ UNCHANGED <<component, settings, lifecycle, connections, closed,
                   connectCalls, batch, faults>>
    /\ macros' = IF task[t].input = "badJSON" THEN macros ELSE Interpolated(macros)
    /\ UNCHANGED topLevelErr
    /\ UNCHANGED contextVars

\* interpolate of goroutine t writes the macro table while a sibling that has
\* not passed its own interpolate yet may be writing or ranging over the same
\* map: an unsynchronised map write, which the Go runtime may end with the
\* fatal error "concurrent map writes".  The other outcome, both goroutines
\* getting through, is HandleQueryBegin.
InterpolateRace(t) ==
    /\ component = "SQLDatasource"
    /\ ~crashed
    /\ task[t].pc = "handleQuery"
    /\ task[t].input # "badJSON"
    /\ Interpolated(macros) # macros
    /\ \E u \in Tasks \ {t} : task[u].pc = "handleQuery" /\ task[u].input # "badJSON"
    /\ crashed' = TRUE
    /\ task' = [task EXCEPT ![t].pc = "panicked"]
    /\ UNCHANGED disposeVars
    /\ UNCHANGED <<component, settings, lifecycle, connections, closed,
                   connectCalls, batch, wg, responses, faults>>
    /\ UNCHANGED <<topLevelErr, macros>>
    /\ UNCHANGED contextVars

\* the caller cancels the context of the request in flight: the batch of
\* QueryData, or the Connector calls that are running
CancelRequest ==
    /\ ~cancelled
    /\ \/ component = "SQLDatasource" /\ batch = "running" /\ ~crashed
       \/ component = "Connector" /\ \E t \in Tasks : task[t].pc \notin {"idle", "done"}
    /\ cancelled' = TRUE
    /\ UNCHANGED <<component, settings, lifecycle, connections, closed,
                   connectCalls, task, faults>>
    /\ UNCHANGED <<dispatcherVars, disposeVars, callVars>>

\* getDBConnectionFromQuery on a miss: Connect with the query's args and
\* store the new connection under the args key
HandleQueryConnect(t) ==
    /\ component = "SQLDatasource"
    /\ ~crashed
    /\ task[t].pc = "Connect"
    /\ connectCalls' = connectCalls + 1
    /\ LET tk == task[t]
           db == <<t, tk.opens + 1>>
           dbConn == DbConnection(db, tk.dbConn.settings)
       IN  \E ok \in CallOutcomes :
             /\ faults' = Charged(ok)
             /\ IF ok
                THEN /\ connections' = storeDBConnection(connections, tk.cacheKey, dbConn)
                     /\ task' = [task EXCEPT ![t] =
                                   [tk EXCEPT !.pc = "QueryDB", !.dbConn = dbConn,
                                              !.db = db, !.opens = tk.opens + 1,
                                              !.resolution = "opened"]]
                     /\ UNCHANGED <<responses, wg>>
                ELSE /\ connections' = connections
                     /\ ResponseSet(t, [tk EXCEPT !.resolution = "failed"],
                                    ErrorFrame, ErrorConnect)
    /\ UNCHANGED disposeVars
    /\ UNCHANGED <<component, settings, lifecycle, closed, batch, crashed>>
    /\ UNCHANGED <<topLevelErr, macros>>
    /\ UNCHANGED contextVars

\* QueryDB on handle db: QueryContext on a closed *sql.DB fails in
\* database/sql ("sql: database is closed") before the driver's execute is
\* called and comes back as ErrorQuery; on an open handle the driver's
\* execute is called once and decides the outcome
QueryDB(db, closedHandles) ==
    IF db \in closedHandles
    THEN {[out |-> o, executed |-> FALSE] :
            o \in {"ErrorQueryMatch", "ErrorQueryNoMatch"}}
    ELSE {[out |-> o, executed |-> TRUE] :
            o \in IF MayFail THEN Outcomes ELSE {"ok"}}
\* QueryDB with its context: on an open handle database/sql returns the
\* error of a context that is done before it calls the driver
QueryDBContext(done, db, closedHandles) ==
    IF done /\ db \notin closedHandles
    THEN {[out |-> "Canceled", executed |-> FALSE]}
    ELSE QueryDB(db, closedHandles)
\* the fault budget after a QueryDB call with result r
ChargedQuery(r) == Charged(r.out = "ok" \/ ~r.executed)

\* the error value of a QueryDB outcome
ErrorOf(out, attempt) ==
    CASE out = "ok" -> NilErr
      [] out = "ErrorQueryMatch" -> Err("ErrorQuery", TRUE, attempt)
      [] out = "ErrorQueryNoMatch" -> Err("ErrorQuery", FALSE, attempt)
      [] OTHER -> Err(out, FALSE, attempt)

\* errors.Is(err, ErrorQuery) && !errors.Is(err, context.DeadlineExceeded)
IsRetriedQueryError(err) == err.kind = "ErrorQuery"
\* errors.Is(err, context.DeadlineExceeded)
IsDeadlineExceeded(err) == err.kind = "DeadlineExceeded"
\* a retry loop that runs one iteration more
RetryLoopConditionInclusive(i, retries) == i <= retries
\* the loop condition of both retry loops: i < ds.driverSettings.Retries
RetryLoopCondition(i, retries) == i < retries

\* the counters of a goroutine after one more QueryDB call
Attempted(tk, r) ==
    [tk EXCEPT !.attempts = tk.attempts + 1,
               !.execs = IF r.executed THEN tk.execs + 1 ELSE tk.execs,
               !.allMatch = tk.allMatch /\ r.executed /\ r.out = "ErrorQueryMatch",
               !.noResults = tk.noResults \/ r.out = "ErrorNoResults",
               !.succeeded = r.out = "ok",
               !.failedMatch = /\ tk.failedMatch
                               /\ \/ r.out = "ok"
                                  \/ r.executed /\ r.out = "ErrorQueryMatch"]

\* handleQuery, the first QueryDB call and the choice of a retry loop
HandleQueryDB(t) ==
    /\ component = "SQLDatasource"
    /\ ~crashed
    /\ task[t].pc = "QueryDB"
    /\ \E r \in QueryDBContext(cancelled, task[t].db, closed) :
         /\ faults' = ChargedQuery(r)
         /\ LET tk == [Attempted(task[t], r) EXCEPT !.err = ErrorOf(r.out, 1)]
            IN  CASE r.out = "ok" -> ResponseSet(t, tk, DataFrames, NilErr)
                  [] r.out = "ErrorNoResults" -> ResponseSet(t, tk, ErrorFrame, NilErr)
                  [] /\ IsRetriedQueryError(tk.err) \/ IsDeadlineExceeded(tk.err)
                     /\ RetryLoopCondition(0, settings.Retries) ->
                       /\ task' = [task EXCEPT ![t] = [tk EXCEPT !.pc = "dbReconnect", !.i = 0]]
                       /\ UNCHANGED <<responses, wg>>
                  [] OTHER -> ResponseSet(t, tk, NilFrames, tk.err)
    /\ UNCHANGED disposeVars
    /\ UNCHANGED <<component, settings, lifecycle, connections, closed,
                   connectCalls, batch, crashed>>
    /\ UNCHANGED <<topLevelErr, macros>>
    /\ UNCHANGED contextVars

\* the end of iteration i of a retry loop that did not return: i++, then
\* either the next iteration or, the loop over, return nil, err with the err
\* of the enclosing scope, which is the error of the first QueryDB call
RetryLoopNext(t, tk) ==
    IF RetryLoopCondition(tk.i + 1, settings.Retries)
    THEN /\ task' = [task EXCEPT ![t] = [tk EXCEPT !.pc = "dbReconnect", !.i = tk.i + 1]]
         /\ UNCHANGED <<responses, wg>>
    ELSE ResponseSet(t, [tk EXCEPT !.i = tk.i + 1], NilFrames, tk.err)

\* a reconnect that stores the handle it was passed again
ReconnectedConnectionStale(db, dbConn) == DbConnection(dbConn.db, dbConn.settings)
\* what a reconnect stores: dbConnection{db, dbConn.settings}, the new handle
\* with the settings of the connection it replaces
ReconnectedConnection(db, dbConn) == DbConnection(db, dbConn.settings)

\* dbReconnect, first half: dbConn.db.Close(), its error only logged.
\* dbConn is the connection handleQuery resolved before its first attempt.
DbReconnectClose(t) ==
    /\ component = "SQLDatasource"
    /\ ~crashed
    /\ task[t].pc = "dbReconnect"
    /\ closed' = closed \cup {task[t].dbConn.db}
    /\ \E ok \in CallOutcomes :
         /\ faults' = Charged(ok)
         /\ task' = [task EXCEPT ![t].pc = "dbReconnectConnect",
                                 ![t].closeFailed = ~ok]
    /\ UNCHANGED disposeVars
    /\ UNCHANGED <<component, settings, lifecycle, connections, connectCalls,
                   batch, wg, responses, crashed>>
    /\ UNCHANGED <<topLevelErr, macros>>
    /\ UNCHANGED contextVars

\* dbReconnect, second half: Connect, and on success store the new handle
\* under cacheKey.  On failure the query-error loop returns nil, err and the
\* timeout loop continues with its next iteration.
DbReconnectConnect(t) ==
    /\ component = "SQLDatasource"
    /\ ~crashed
    /\ task[t].pc = "dbReconnectConnect"
    /\ connectCalls' = connectCalls + 1
    /\ LET tk == task[t]
           db == <<t, tk.opens + 1>>
       IN  \E ok \in CallOutcomes :
             /\ faults' = Charged(ok)
             /\ IF ok
                THEN /\ connections' = storeDBConnection(connections, tk.cacheKey,
                                           ReconnectedConnection(db, tk.dbConn))
                     /\ task' = [task EXCEPT ![t] =
                                   [tk EXCEPT !.pc = "retryQueryDB", !.db = db,
                                              !.opens = tk.opens + 1]]
                     /\ UNCHANGED <<responses, wg>>
                ELSE /\ connections' = connections
                     /\ IF IsRetriedQueryError(tk.err)
                        THEN ResponseSet(t, tk, NilFrames, ErrorConnect)
                        ELSE RetryLoopNext(t, tk)
    /\ UNCHANGED disposeVars
    /\ UNCHANGED <<component, settings, lifecycle, closed, batch, crashed>>
    /\ UNCHANGED <<topLevelErr, macros>>
    /\ UNCHANGED contextVars

\* the QueryDB call of a retry iteration on the handle dbReconnect returned;
\* only a nil error ends the loop
HandleQueryRetry(t) ==
    /\ component = "SQLDatasource"
    /\ ~crashed
    /\ task[t].pc = "retryQueryDB"
    /\ \E r \in QueryDBContext(cancelled, task[t].db, closed) :
         /\ faults' = ChargedQuery(r)
         /\ LET tk == [Attempted(task[t], r) EXCEPT !.closeFailed = FALSE]
            IN  IF r.out = "ok"
                THEN ResponseSet(t, tk, DataFrames, NilErr)
                ELSE RetryLoopNext(t, tk)
    /\ UNCHANGED disposeVars
    /\ UNCHANGED <<component, settings, lifecycle, connections, closed,
                   connectCalls, batch, crashed>>
    /\ UNCHANGED <<topLevelErr, macros>>
    /\ UNCHANGED contextVars


\* ---------------------------------------------------- Connector: lifecycle
\* NewConnector: Connect with emptyConnArgs; on success the connector exists
\* and holds the default entry, on failure no connector is returned
NewConnector ==
    /\ component = "Connector"
    /\ lifecycle = "new"
    /\ connectCalls' = connectCalls + 1
    /\ \E ok \in CallOutcomes :
         /\ faults' = Charged(ok)
         /\ IF ok
            THEN /\ connections' = storeDBConnection(connections,
                                       datasourceCacheKey(UID, emptyConnArgs),
                                       DbConnection(InitialDB, InstanceSettings))
                 /\ lifecycle' = "live"
            ELSE /\ connections' = connections
                 /\ lifecycle' = "failed"
    /\ UNCHANGED <<component, settings, closed, task>>
    /\ UNCHANGED <<dispatcherVars, disposeVars>>
    /\ UNCHANGED contextVars

\* the keys and the handles of a cache
CachedKeys(cache) == {k \in Keys : cache[k] # NoConn}
CachedHandles(cache) == {cache[k].db : k \in CachedKeys(cache)}

\* Connector.Dispose, one call of the Range callback: Close the handle stored
\* under a key not yet visited.  The first call is where Dispose starts.
ConnectorDisposeRange(k) ==
    /\ component = "Connector"
    /\ lifecycle \in {"live", "disposing"}
    /\ k \in CachedKeys(connections) \ rangeVisited
    /\ closed' = closed \cup {connections[k].db}
    /\ rangeVisited' = rangeVisited \cup {k}
    /\ disposeStart' = IF lifecycle = "live" THEN connections ELSE disposeStart
    /\ lifecycle' = "disposing"
    /\ UNCHANGED <<component, settings, connections, connectCalls, task, faults,
                   interfered>>
    /\ UNCHANGED dispatcherVars
    /\ UNCHANGED contextVars

\* a Clear that removes nothing
ClearedCacheKept == connections
\* the cache after connections.Clear()
ClearedCache == [k \in Keys |-> NoConn]

\* Connector.Dispose, after the Range: connections.Clear().  The Range has
\* visited every key that was in the map throughout; a key stored while it
\* ran may have been missed.
ConnectorDisposeClear ==
    /\ component = "Connector"
    /\ lifecycle = "disposing"
    /\ CachedKeys(disposeStart) \subseteq rangeVisited
    /\ connections' = ClearedCache
    /\ lifecycle' = "disposed"
    /\ UNCHANGED <<component, settings, closed, connectCalls, task, faults>>
    /\ UNCHANGED <<dispatcherVars, disposeVars>>
    /\ UNCHANGED contextVars

\* a write of the cache by a goroutine, noted when Dispose has started
Interfered == interfered \/ lifecycle \in {"disposing", "disposed"}

\* the end of a Connector call of goroutine t with error err
ConnectorReturn(t, tk, err) ==
    task' = [task EXCEPT ![t] = Returned([tk EXCEPT !.err = err])]

\* ------------------------------------------ Connector: resolving a connection
\* Connector.GetConnectionFromQuery up to its cache lookup: the cached
\* connection is returned, a miss goes on to Connect.  It can be called on a
\* connector that Dispose has emptied.
GetConnectionFromQuery(t) ==
    /\ component = "Connector"
    /\ lifecycle \in {"live", "disposing", "disposed"}
    /\ task[t].pc = "idle"
    /\ \E connArgs \in ArgsSet :
         LET key == datasourceCacheKey(UID, connArgs)
             cachedConn == getDBConnection(connections, key)
             tk == [task[t] EXCEPT !.op = "GetConnectionFromQuery",
                                   !.args = connArgs, !.cacheKey = key,
                                   !.overlap = Overlaps(t)]
         IN  IF cachedConn.ok
             THEN ConnectorReturn(t, [tk EXCEPT !.resolution = "cached"], NilErr)
             ELSE task' = [task EXCEPT ![t] = [tk EXCEPT !.pc = "driverConnect",
                                                         !.resolution = "miss"]]
    /\ UNCHANGED <<component, settings, lifecycle, connections, closed,
                   connectCalls, faults>>
    /\ UNCHANGED <<dispatcherVars, disposeVars>>
    /\ UNCHANGED contextVars

\* Connector.GetConnectionFromQuery on a miss: the driver's Connect with the
\* instance settings and the query's args, then the store under the key
GetConnectionFromQueryConnect(t) ==
    /\ component = "Connector"
    /\ task[t].pc = "driverConnect"
    /\ connectCalls' = connectCalls + 1
    /\ LET tk == task[t]
           db == <<t, tk.opens + 1>>
       IN  \E ok \in CallOutcomes :
             /\ faults' = Charged(ok)
             /\ IF ok
                THEN /\ connections' = storeDBConnection(connections, tk.cacheKey,
                                           DbConnection(db, InstanceSettings))
                     /\ interfered' = Interfered
                     /\ ConnectorReturn(t, [tk EXCEPT !.opens = tk.opens + 1,
                                                      !.resolution = "opened"], NilErr)
                ELSE /\ UNCHANGED <<connections, interfered>>
                     /\ ConnectorReturn(t, [tk EXCEPT !.resolution = "failed"],
                                        ErrorConnect)
    /\ UNCHANGED <<component, settings, lifecycle, closed, rangeVisited, disposeStart>>
    /\ UNCHANGED dispatcherVars
    /\ UNCHANGED contextVars

\* ----------------------------------------------- Connector: the health probe
\* PingContext on handle db: database/sql refuses a closed handle; on an open
\* one the driver decides.  match says whether the error text contains an
\* element of RetryOn.
Ping(db, closedHandles) ==
    IF db \in closedHandles
    THEN {[ok |-> FALSE, match |-> m, executed |-> FALSE] : m \in BOOLEAN}
    ELSE {[ok |-> TRUE, match |-> FALSE, executed |-> TRUE]}
         \cup IF MayFail
              THEN {[ok |-> FALSE, match |-> m, executed |-> TRUE] : m \in BOOLEAN}
              ELSE {}
\* PingContext with its context: a context that is done fails the ping
\* before the driver is called
PingContext(done, db, closedHandles) ==
    IF done
    THEN {[ok |-> FALSE, match |-> m, executed |-> FALSE] : m \in BOOLEAN}
    ELSE Ping(db, closedHandles)
ErrorPing(r) == Err("ping", r.match, 0)

\* shouldRetry(c.driverSettings.RetryOn, err.Error())
shouldRetry(err) == err.match

\* Connector.Connect up to the choice of the probe: the default connection is
\* loaded; with Retries = 0 it is pinged as it is, otherwise
\* connectWithRetries is entered with c.UID as its key
ConnectorConnect(t) ==
    /\ component = "Connector"
    /\ lifecycle \in {"live", "disposing"}
    /\ task[t].pc = "idle"
    /\ LET dflt == getDBConnection(connections, datasourceCacheKey(UID, emptyConnArgs))
           tk == [task[t] EXCEPT !.op = "Connect"]
       IN  IF ~dflt.ok
           THEN ConnectorReturn(t, tk, ErrorMissingDBConnection)
           ELSE IF settings.Retries = 0
           THEN task' = [task EXCEPT ![t] =
                           [tk EXCEPT !.pc = "connect", !.dbConn = dflt.conn,
                                      !.db = dflt.conn.db]]
           ELSE task' = [task EXCEPT ![t] =
                           [tk EXCEPT !.pc = "Reconnect", !.dbConn = dflt.conn,
                                      !.cacheKey = BareUIDKey, !.i = 0]]
    /\ UNCHANGED <<component, settings, lifecycle, connections, closed,
                   connectCalls, faults>>
    /\ UNCHANGED <<dispatcherVars, disposeVars>>
    /\ UNCHANGED contextVars

\* Connector.Reconnect, first half: dbConn.db.Close(), its error only logged.
\* connectWithRetries passes the connection it was called with on every
\* iteration.
ReconnectClose(t) ==
    /\ component = "Connector"
    /\ task[t].pc = "Reconnect"
    /\ closed' = closed \cup {task[t].dbConn.db}
    /\ \E ok \in CallOutcomes :
         /\ faults' = Charged(ok)
         /\ task' = [task EXCEPT ![t].pc = "ReconnectConnect",
                                 ![t].closeFailed = ~ok]
    /\ UNCHANGED <<component, settings, lifecycle, connections, connectCalls>>
    /\ UNCHANGED <<dispatcherVars, disposeVars>>
    /\ UNCHANGED contextVars

\* Connector.Reconnect, second half: the driver's Connect; on success the new
\* handle is stored under cacheKey with the settings of dbConn, on failure
\* connectWithRetries returns the error
ReconnectConnect(t) ==
    /\ component = "Connector"
    /\ task[t].pc = "ReconnectConnect"
    /\ connectCalls' = connectCalls + 1
    /\ LET tk == task[t]
           db == <<t, tk.opens + 1>>
       IN  \E ok \in CallOutcomes :
             /\ faults' = Charged(ok)
             /\ IF ok
                THEN /\ connections' = storeDBConnection(connections, tk.cacheKey,
                                           ReconnectedConnection(db, tk.dbConn))
                     /\ interfered' = Interfered
                     /\ task' = [task EXCEPT ![t] =
                                   [tk EXCEPT !.pc = "connect", !.db = db,
                                              !.opens = tk.opens + 1]]
                ELSE /\ UNCHANGED <<connections, interfered>>
                     /\ ConnectorReturn(t, tk, ErrorConnect)
    /\ UNCHANGED <<component, settings, lifecycle, closed, rangeVisited, disposeStart>>
    /\ UNCHANGED dispatcherVars
    /\ UNCHANGED contextVars

\* c.connect: one ping.  Without retries its result is the result of
\* Connect; in connectWithRetries a failed ping is followed by the next
\* iteration if shouldRetry holds and an iteration is left.
ConnectorPing(t) ==
    /\ component = "Connector"
    /\ task[t].pc = "connect"
    /\ \E r \in PingContext(cancelled, task[t].db, closed) :
         /\ faults' = Charged(r.ok \/ ~r.executed)
         /\ LET tk == [task[t] EXCEPT !.attempts = task[t].attempts + 1,
                         !.execs = IF r.executed THEN task[t].execs + 1
                                   ELSE task[t].execs,
                         !.closeFailed = FALSE]
                err == ErrorPing(r)
            IN  IF r.ok
                THEN ConnectorReturn(t, tk, NilErr)
                ELSE IF settings.Retries = 0 \/ ~shouldRetry(err)
                        \/ tk.i + 1 = settings.Retries
                THEN ConnectorReturn(t, tk, err)
                ELSE task' = [task EXCEPT ![t] =
                                [tk EXCEPT !.pc = "Reconnect", !.i = tk.i + 1]]
    /\ UNCHANGED <<component, settings, lifecycle, connections, closed, connectCalls>>
    /\ UNCHANGED <<dispatcherVars, disposeVars>>
    /\ UNCHANGED contextVars

\* --------------------------------------------------------- the query runner
\* the invocations at their entry
RunInputs ==
    {[IdleRun EXCEPT !.pc = "Run", !.queryContext = qc, !.rowsErr = re,
                     !.getFrames = gf, !.match = m, !.rows = n,
                     !.rowLimit = l] :
        qc \in QueryContextResults, re \in RowsErrResults,
        gf \in GetFramesResults, m \in BOOLEAN, n \in 0..MaxRows,
        l \in RowLimits}

\* an errType that is ErrorQuery whatever the error
errTypeQueryOnly(err) == "ErrorQuery"
\* errType := ErrorQuery; if errors.Is(err, context.Canceled) { errType =
\* context.Canceled }
errType(err) == IF err = "Canceled" THEN "Canceled" ELSE "ErrorQuery"

\* fmt.Errorf with one %w operand: errors.Is finds the wrapped error and
\* nothing else; an operand formatted with %s leaves only its text (match)
Errorf(wrapped, match) == Err(wrapped, match, 0)

\* what Run leaves alone
runnerFrame == <<systemVars, health, async, cancelReq, interp, forward, exec, classify, timed>>

\* rows, err := q.DB.QueryContext(...); on an error the error frame and
\* errType wrapped with %w, the error's text appended with %s
RunQueryContext ==
    /\ run.pc = "Run"
    /\ run' = IF run.queryContext = "rows"
              THEN [run EXCEPT !.pc = "rowsErr", !.calls = run.calls + 1,
                               !.cursor = "open"]
              ELSE [run EXCEPT !.pc = "returned", !.calls = run.calls + 1,
                               !.frames = ErrorFrame,
                               !.err = Errorf(errType(run.queryContext), run.match)]
    /\ UNCHANGED runnerFrame

\* if err := rows.Err(); err != nil: both branches return the error frame and
\* the error wrapped with %w; the deferred rows.Close() is registered only
\* after this check, so that Run leaves the cursor as it finds it: open, or
\* closed by the library that recorded the error on it
RunRowsErr ==
    /\ run.pc = "rowsErr"
    /\ IF run.rowsErr = "nil"
       THEN run' = [run EXCEPT !.pc = "getFrames"]
       ELSE \E c \in {"open", "closed"} :
              run' = [run EXCEPT !.pc = "returned", !.frames = ErrorFrame,
                                 !.cursor = c,
                                 !.err = Errorf(run.rowsErr, run.match)]
    /\ UNCHANGED runnerFrame

\* sqlutil.FrameFromRows: the frame of the first limit rows, of all of them
\* when limit is negative
FrameFromRows(n, limit) ==
    IF limit < 0 THEN n ELSE IF n < limit THEN n ELSE limit

\* the limit Run hands to getFrames
RunLimit(r) == -1

\* defer rows.Close(); getFrames: frames, or the error frame and the error
\* of getFrames wrapped with %w; the deferred Close runs on return and while
\* a panic unwinds
RunGetFrames ==
    /\ run.pc = "getFrames"
    /\ run' = CASE run.getFrames = "frames" ->
                     [run EXCEPT !.pc = "returned", !.cursor = "closed",
                                 !.frames = DataFrames,
                                 !.frameRows = FrameFromRows(run.rows, RunLimit(run))]
                [] run.getFrames = "panic" ->
                     [run EXCEPT !.pc = "panicked", !.cursor = "closed"]
                [] OTHER ->
                     [run EXCEPT !.pc = "returned", !.cursor = "closed",
                                 !.frames = ErrorFrame,
                                 !.err = Errorf(run.getFrames, FALSE)]
    /\ UNCHANGED runnerFrame

\* a datasource that does nothing: the state around a call that is specified
\* on its own
IdleSystem ==
    /\ component = "SQLDatasource"
    /\ settings = [Retries |-> 0, EnableMultipleConnections |-> FALSE,
                   Errors |-> FALSE]
    /\ lifecycle = "new"
    /\ connections = [k \in Keys |-> NoConn]
    /\ closed = {}
    /\ connectCalls = 0
    /\ task = [t \in Tasks |-> IdleTask]
    /\ batch = "none"
    /\ wg = 0
    /\ responses = [r \in RefIDs |-> <<>>]
    /\ crashed = FALSE
    /\ faults = 0
    /\ rangeVisited = {}
    /\ disposeStart = [k \in Keys |-> NoConn]
    /\ interfered = FALSE
    /\ topLevelErr = NilErr
    /\ macros = {}
    /\ cancelled = FALSE

\* the runner alone: any invocation
InitRun ==
    /\ IdleSystem
    /\ run \in RunInputs
    /\ health = IdleHealth
    /\ async = IdleAsync
    /\ cancelReq = IdleCancel
    /\ interp = IdleInterpolate
    /\ forward = IdleForward
    /\ exec = IdleExec
    /\ classify = IdleClassify
    /\ timed = IdleTimed

NextRun ==
    \/ RunQueryContext
    \/ RunRowsErr
    \/ RunGetFrames

SpecRun == InitRun /\ [][NextRun]_vars

\* ----------------------------------------------------------- the health check
\* the hooks a driver can provide
HookResults == {"absent", "ok", "error"}
\* the health checks that can be called
HealthInputs ==
    {[IdleHealth EXCEPT !.pc = "CheckHealth", !.impl = impl, !.retries = r,
                        !.hasDefault = d, !.pre = pre, !.post = post] :
        impl \in {"SQLDatasource", "HealthChecker"}, r \in RetriesRange,
        d \in BOOLEAN, pre \in HookResults, post \in HookResults}
\* what one Ping of the probed handle can give: nil, or an error whose text
\* does or does not contain an element of RetryOn
PingOutcomes == {"ok", "match", "other"}
\* the error of the n-th ping of a health check
HealthPingError(outcome, n) == Err("ping", outcome = "match", n)

\* what a health check leaves alone
healthFrame == <<systemVars, run, async, cancelReq, interp, forward, exec, classify, timed>>

\* the health check has returned result and err
HealthReturn(h, result, err) ==
    [h EXCEPT !.pc = "done", !.result = result, !.err = err]

\* SQLDatasource.CheckHealth up to its first probe: without a default
\* connection it returns (nil, MissingDBConnection)
CheckHealth ==
    /\ health.pc = "CheckHealth"
    /\ health.impl = "SQLDatasource"
    /\ health' = IF ~health.hasDefault
                 THEN HealthReturn(health, NoResult, ErrorMissingDBConnection)
                 ELSE [health EXCEPT !.pc = "check", !.i = 0]
    /\ UNCHANGED healthFrame

\* one ds.check(conn): a ping and its result.  With Retries = 0 CheckHealth
\* returns what check returned, the error included; checkWithRetries returns
\* at the first success and, once the loop is over, the last result with a
\* nil error
check ==
    /\ health.pc = "check"
    /\ \E o \in PingOutcomes :
        LET n == health.pings + 1
            err == IF o = "ok" THEN NilErr ELSE HealthPingError(o, n)
            result == IF o = "ok" THEN HealthOk ELSE HealthError(err)
            pinged == [health EXCEPT !.pings = n,
                                     !.allMatch = @ /\ o = "match"]
        IN health' =
            IF health.retries = 0 THEN HealthReturn(pinged, result, err)
            ELSE IF err = NilErr THEN HealthReturn(pinged, result, NilErr)
            ELSE IF RetryLoopCondition(health.i + 1, health.retries)
                 THEN [pinged EXCEPT !.i = @ + 1, !.result = result, !.err = err]
            ELSE HealthReturn(pinged, result, NilErr)
    /\ UNCHANGED healthFrame

\* HealthChecker.Check up to the first step of Connector.Connect: without a
\* default connection Connect fails with ErrorMissingDBConnection, which
\* Check reports in the result and returns as a downstream error
HealthCheckerCheck ==
    /\ health.pc = "CheckHealth"
    /\ health.impl = "HealthChecker"
    /\ health' = IF ~health.hasDefault
                 THEN HealthReturn(health, HealthError(ErrorMissingDBConnection),
                                   ErrorMissingDBConnection)
                 ELSE IF health.retries = 0
                 THEN [health EXCEPT !.pc = "connect", !.i = 0]
                 ELSE [health EXCEPT !.pc = "Reconnect", !.i = 0]
    /\ UNCHANGED healthFrame

\* the Reconnect of one iteration of connectWithRetries: the handle is
\* closed and the driver's Connect is called; its error ends the loop and
\* the health check
HealthCheckerReconnect ==
    /\ health.pc = "Reconnect"
    /\ \E granted \in BOOLEAN :
        LET connected == [health EXCEPT !.connects = @ + 1]
        IN health' = IF granted THEN [connected EXCEPT !.pc = "connect"]
                     ELSE HealthReturn(connected, HealthError(ErrorConnect),
                                       ErrorConnect)
    /\ UNCHANGED healthFrame

\* c.connect, the ping of Connector.Connect, and what follows it: the loop
\* of connectWithRetries goes on while the error contains an element of
\* RetryOn and i + 1 < Retries; Check reports the error of Connect in the
\* result and returns it as a downstream error
HealthCheckerConnect ==
    /\ health.pc = "connect"
    /\ \E o \in PingOutcomes :
        LET n == health.pings + 1
            err == IF o = "ok" THEN NilErr ELSE HealthPingError(o, n)
            pinged == [health EXCEPT !.pings = n,
                                     !.allMatch = @ /\ o = "match"]
        IN health' =
            IF err = NilErr THEN HealthReturn(pinged, HealthOk, NilErr)
            ELSE IF /\ health.retries > 0
                    /\ shouldRetry(err)
                    /\ RetryLoopCondition(health.i + 1, health.retries)
                 THEN [pinged EXCEPT !.pc = "Reconnect", !.i = @ + 1]
            ELSE HealthReturn(pinged, HealthError(err), err)
    /\ UNCHANGED healthFrame

\* the health check alone: any call, on a datasource that does nothing else
InitHealth ==
    /\ IdleSystem
    /\ run = IdleRun
    /\ health \in HealthInputs
    /\ async = IdleAsync
    /\ cancelReq = IdleCancel
    /\ interp = IdleInterpolate
    /\ forward = IdleForward
    /\ exec = IdleExec
    /\ classify = IdleClassify
    /\ timed = IdleTimed

NextHealth ==
    \/ CheckHealth
    \/ check
    \/ HealthCheckerCheck
    \/ HealthCheckerReconnect
    \/ HealthCheckerConnect

SpecHealth == InitHealth /\ [][NextHealth]_vars

\* ------------------------------------------------------------ the async query
\* the query IDs a request can carry; "" is the request that starts a query
QueryIDs == {"", "q1", "q2"}
\* the ID StartQuery issues
IssuedID == "new"
\* the async requests: Query.QueryID, and the ID under which the driver
\* already runs the query's SQL
AsyncInputs ==
    {[IdleAsync EXCEPT !.pc = "handleAsyncQuery", !.queryID = q, !.knownID = k] :
        q \in QueryIDs, k \in {"", "q1"}}

\* the states a driver reports for a query
QueryStatuses ==
    {"Unknown", "Submitted", "Running", "Finished", "Canceled", "Failed"}
\* the terminal states
TerminalStatuses == {"Finished", "Canceled", "Failed"}
\* QueryStatus.Finished
Finished(status) == status \in TerminalStatuses
\* no status ends the request
PollAnswersNever(status) == FALSE
\* a polled status that is not finished ends the request with a status frame
PollAnswers(status) == ~Finished(status)

\* the errors of the async calls
ErrorNoAsyncDB == Err("unable to get AsyncDB", FALSE, 0)
ErrorStartQuery == Err("StartQuery", FALSE, 0)
ErrorQueryStatus == Err("QueryStatus", FALSE, 0)
ErrorQuery == Err("ErrorQuery", FALSE, 0)
ErrorFetch == Err("fetch", FALSE, 0)

\* what an async request leaves alone
asyncFrame == <<systemVars, run, health, cancelReq, interp, forward, exec, classify, timed>>

\* the async request has returned frames and err
AsyncReturn(a, frames, err) ==
    [a EXCEPT !.pc = "done", !.frames = frames, !.err = err]

\* handleAsyncQuery up to the first call of the async handle: GetQuery,
\* Interpolate and getDBConnectionFromConnArgs can fail, each with the
\* query's error frame; a connection without an async handle gives nil
\* frames and "unable to get AsyncDB"
handleAsyncQuery ==
    /\ async.pc = "handleAsyncQuery"
    /\ \E o \in {"ErrorJSON", "macro", "connection", "noAsyncDB", "ok"} :
        async' =
            CASE o = "ErrorJSON" -> AsyncReturn(async, AsyncErrorFrame, ErrorJSON)
              [] o = "macro" -> AsyncReturn(async, AsyncErrorFrame, ErrorMacro)
              [] o = "connection" ->
                    AsyncReturn(async, AsyncErrorFrame, ErrorMissingDBConnection)
              [] o = "noAsyncDB" -> AsyncReturn(async, NoAsyncFrames, ErrorNoAsyncDB)
              [] o = "ok" ->
                    [async EXCEPT !.pc = IF async.queryID = "" THEN "startQuery"
                                         ELSE "queryStatus"]
    /\ UNCHANGED asyncFrame

\* the branch of an empty QueryID: startQuery gives the ID under which the
\* driver already runs this SQL, or else the one StartQuery issues; the
\* request returns one frame with that ID and the status "started"
startQuery ==
    /\ async.pc = "startQuery"
    /\ \E ok \in BOOLEAN :
        async' =
            IF ~ok THEN AsyncReturn(async, AsyncErrorFrame, ErrorStartQuery)
            ELSE IF async.knownID # ""
                 THEN AsyncReturn(async, MetaFrame(async.knownID, "started"), NilErr)
            ELSE AsyncReturn([async EXCEPT !.starts = @ + 1],
                             MetaFrame(IssuedID, "started"), NilErr)
    /\ UNCHANGED asyncFrame

\* the branch of a QueryID: the status is polled; an error returns the error
\* frame, a status that is not terminal returns one frame with the request's
\* QueryID and that status, a terminal one goes on to the fetch
queryStatus ==
    /\ async.pc = "queryStatus"
    /\ \E ok \in BOOLEAN, status \in QueryStatuses :
        LET polled == [async EXCEPT !.polls = @ + 1]
        IN async' =
            IF ~ok THEN AsyncReturn(polled, AsyncErrorFrame, ErrorQueryStatus)
            ELSE IF PollAnswers(status)
                 THEN AsyncReturn([polled EXCEPT !.status = status],
                                  MetaFrame(async.queryID, status), NilErr)
            ELSE [polled EXCEPT !.status = status, !.pc = "queryAsync"]
    /\ UNCHANGED asyncFrame

\* queryAsync, the fetch of the rows: the first one returns its frames when
\* it gives no error or ErrorNoResults, returns another error that is not an
\* ErrorQuery, and goes on to the reconnect after an ErrorQuery; the one
\* after the reconnect returns what it gives
queryAsync ==
    /\ async.pc = "queryAsync"
    /\ \E o \in {"frames", "ErrorNoResults", "ErrorQuery", "other"} :
        LET fetched == [async EXCEPT !.fetches = @ + 1]
        IN async' =
            CASE o = "frames" -> AsyncReturn(fetched, RowFrames, NilErr)
              [] o = "ErrorNoResults" ->
                    IF async.retried
                    THEN AsyncReturn(fetched, AsyncErrorFrame, Err("ErrorNoResults", FALSE, 0))
                    ELSE AsyncReturn(fetched, AsyncErrorFrame, NilErr)
              [] o = "ErrorQuery" ->
                    IF async.retried
                    THEN AsyncReturn(fetched, AsyncErrorFrame, ErrorQuery)
                    ELSE [fetched EXCEPT !.pc = "Connect"]
              [] o = "other" ->
                    IF async.retried
                    THEN AsyncReturn(fetched, AsyncErrorFrame, ErrorFetch)
                    ELSE AsyncReturn(fetched, NoAsyncFrames, ErrorFetch)
    /\ UNCHANGED asyncFrame

\* the reconnect after an ErrorQuery: the driver's Connect and GetAsyncDB,
\* each of whose errors is returned with nil frames; the connection is
\* stored and the rows are fetched again
AsyncReconnect ==
    /\ async.pc = "Connect"
    /\ \E o \in {"connect", "GetAsyncDB", "ok"} :
        async' =
            CASE o = "connect" -> AsyncReturn(async, NoAsyncFrames, ErrorConnect)
              [] o = "GetAsyncDB" -> AsyncReturn(async, NoAsyncFrames, ErrorNoAsyncDB)
              [] o = "ok" -> [async EXCEPT !.pc = "queryAsync", !.retried = TRUE]
    /\ UNCHANGED asyncFrame

\* the async handler alone: any request, on a datasource that does nothing else
InitAsync ==
    /\ IdleSystem
    /\ run = IdleRun
    /\ health = IdleHealth
    /\ async \in AsyncInputs
    /\ cancelReq = IdleCancel
    /\ interp = IdleInterpolate
    /\ forward = IdleForward
    /\ exec = IdleExec
    /\ classify = IdleClassify
    /\ timed = IdleTimed

NextAsync ==
    \/ handleAsyncQuery
    \/ startQuery
    \/ queryStatus
    \/ queryAsync
    \/ AsyncReconnect

SpecAsync == InitAsync /\ [][NextAsync]_vars

\* --------------------------------------------------------- the cancel endpoint
\* the query IDs a /cancel request can name
CancelIDs == {"q1", "q2"}
\* the bodies of a /cancel request
CancelBodies == {"none", "badJSON", "{}", ""} \cup CancelIDs
\* the /cancel requests
CancelInputs ==
    {[IdleCancel EXCEPT !.pc = "cancelQuery", !.body = b, !.hasPlugin = p,
                        !.hasDefault = d, !.hasAsyncDB = a, !.cached = c,
                        !.cache = c] :
        b \in CancelBodies, p \in BOOLEAN, d \in BOOLEAN, a \in BOOLEAN,
        c \in SUBSET CancelIDs}

\* options["queryId"] of a decoded body: "" when the key is absent
QueryIdOf(body) == IF body \in CancelIDs THEN body ELSE ""
\* http.StatusBadRequest, and the status of a response no header was written to
StatusBadRequest == 400
StatusOK == 200

\* what a /cancel request leaves alone
cancelFrame == <<systemVars, run, health, async, interp, forward, exec, classify, timed>>

\* handleError: the response is a 400 with the error text
handleError(c) == [c EXCEPT !.pc = "done", !.status = StatusBadRequest]

\* ds.cache.Delete keeps every entry
DeleteNothing(cache, id) == cache
\* ds.cache.Delete(id)
Delete(cache, id) == cache \ {id}

\* cancelQuery up to the call of the driver: a body that does not decode, a
\* missing or empty queryId, a context without datasource settings, a
\* missing default connection and a connection without async handle are
\* each answered by handleError
cancelQuery ==
    /\ cancelReq.pc = "cancelQuery"
    /\ cancelReq' =
        IF cancelReq.body = "badJSON" THEN handleError(cancelReq)
        ELSE IF QueryIdOf(cancelReq.body) = "" THEN handleError(cancelReq)
        ELSE IF ~cancelReq.hasPlugin THEN handleError(cancelReq)
        ELSE IF ~cancelReq.hasDefault THEN handleError(cancelReq)
        ELSE IF ~cancelReq.hasAsyncDB THEN handleError(cancelReq)
        ELSE [cancelReq EXCEPT !.pc = "CancelQuery"]
    /\ UNCHANGED cancelFrame

\* dbConn.asyncDB.CancelQuery(ctx, options["queryId"]) on the default
\* connection, with or without an error
CancelQuery ==
    /\ cancelReq.pc = "CancelQuery"
    /\ \E failed \in BOOLEAN :
        cancelReq' = [cancelReq EXCEPT
                        !.pc = "Delete",
                        !.calls = Append(@, QueryIdOf(cancelReq.body)),
                        !.cancelErr = failed]
    /\ UNCHANGED cancelFrame

\* ds.cache.Delete(options["queryId"]), then the answer: handleError for an
\* error of CancelQuery, and otherwise a response nothing was written to
CancelQueryDelete ==
    /\ cancelReq.pc = "Delete"
    /\ LET deleted == [cancelReq EXCEPT
                         !.cache = Delete(@, QueryIdOf(cancelReq.body))]
       IN cancelReq' = IF cancelReq.cancelErr THEN handleError(deleted)
                       ELSE [deleted EXCEPT !.pc = "done", !.status = StatusOK]
    /\ UNCHANGED cancelFrame

\* the endpoint alone: any request, on a datasource that does nothing else
InitCancel ==
    /\ IdleSystem
    /\ run = IdleRun
    /\ health = IdleHealth
    /\ async = IdleAsync
    /\ cancelReq \in CancelInputs
    /\ interp = IdleInterpolate
    /\ forward = IdleForward
    /\ exec = IdleExec
    /\ classify = IdleClassify
    /\ timed = IdleTimed

NextCancel ==
    \/ cancelQuery
    \/ CancelQuery
    \/ CancelQueryDelete

SpecCancel == InitCancel /\ [][NextCancel]_vars

\* ------------------------------------------------------------- interpolate
\* the names of the macros of the driver's table that occur in the queries;
\* a macro without a match leaves the SQL as it is, wherever the range
\* visits it
macroTime == <<"t", "i", "m", "e">>
macroTimeFilter == <<"t", "i", "m", "e", "F", "i", "l", "t", "e", "r">>
MacroNames == {macroTime, macroTimeFilter}
\* the orders in which a range over the macro table can visit these keys
Orders == {<<macroTime, macroTimeFilter>>, <<macroTimeFilter, macroTime>>}

\* the pieces the queries are made of
Pieces ==
    {<<"$", "_", "_", "t", "i", "m", "e">>,
     <<"$", "_", "_", "t", "i", "m", "e", "F", "i", "l", "t", "e", "r">>,
     <<"(", "t", "i", "m", "e", ")">>,
     <<"(", " ", "a", ",", "b", " ", ")">>,
     <<"(", "$", "_", "_", "t", "i", "m", "e", ")">>,
     <<"t", "i", "m", "e">>,
     <<" ">>}

\* the texts of at most n pieces
RECURSIVE Texts(_)
Texts(n) ==
    IF n = 0 THEN {<<>>}
    ELSE LET shorter == Texts(n - 1)
         IN shorter \cup {t \o p : t \in shorter, p \in Pieces}

\* the queries at the entry of interpolate
InterpolateInputs ==
    {[IdleInterpolate EXCEPT !.pc = "interpolate", !.sql = q] : q \in Texts(MaxPieces)}

\* the characters \b takes for word characters
WordChars ==
    {"_", "a", "b", "e", "F", "i", "l", "m", "r", "t", "T"}

\* a macro token without a prefix
MacroPrefixEmpty == <<>>
\* the "\\$__" of getMacroRegex
MacroPrefix == <<"$", "_", "_">>

\* text s has p at position i
HasAt(s, p, i) ==
    /\ i + Len(p) - 1 <= Len(s)
    /\ SubSeq(s, i, i + Len(p) - 1) = p

\* the position of the first ch in s at or after i, 0 for none
RECURSIVE IndexFrom(_, _, _)
IndexFrom(s, ch, i) ==
    IF i > Len(s) THEN 0
    ELSE IF s[i] = ch THEN i
    ELSE IndexFrom(s, ch, i + 1)

\* the match of getMacroRegex(name), \$__name\b(?:\((.*?)\))?, that begins
\* at position i of s: whole is match[0] and arg is match[1].  The name must
\* end at a word boundary; the bracket group is taken when a "(" follows and
\* a ")" comes after it, and then ends at the first ")"
MatchAt(name, s, i) ==
    LET token == MacroPrefix \o name
        e == i + Len(token)
        close == IF e <= Len(s) /\ s[e] = "(" THEN IndexFrom(s, ")", e + 1) ELSE 0
    IN  IF ~HasAt(s, token, i) \/ (e <= Len(s) /\ s[e] \in WordChars)
        THEN [found |-> FALSE, whole |-> <<>>, arg |-> <<>>]
        ELSE IF close # 0
        THEN [found |-> TRUE, whole |-> SubSeq(s, i, close),
              arg |-> SubSeq(s, e + 1, close - 1)]
        ELSE [found |-> TRUE, whole |-> token, arg |-> <<>>]

\* rgx.FindAllStringSubmatch(rawSQL, -1): the matches from left to right,
\* each search beginning where the match before ended
RECURSIVE FindAllStringSubmatch(_, _, _)
FindAllStringSubmatch(name, s, i) ==
    IF i > Len(s) THEN <<>>
    ELSE LET m == MatchAt(name, s, i)
         IN IF m.found
            THEN <<m>> \o FindAllStringSubmatch(name, s, i + Len(m.whole))
            ELSE FindAllStringSubmatch(name, s, i + 1)

\* strings.Split(s, ","): the pieces between the commas, one empty piece
\* for the empty text
RECURSIVE Split(_)
Split(s) ==
    LET comma == IndexFrom(s, ",", 1)
    IN IF comma = 0 THEN <<s>>
       ELSE <<SubSeq(s, 1, comma - 1)>> \o Split(SubSeq(s, comma + 1, Len(s)))

\* strings.TrimSpace
RECURSIVE TrimSpace(_)
TrimSpace(s) ==
    IF s = <<>> THEN s
    ELSE IF Head(s) = " " THEN TrimSpace(Tail(s))
    ELSE IF s[Len(s)] = " " THEN TrimSpace(SubSeq(s, 1, Len(s) - 1))
    ELSE s

\* trimAll
trimAll(args) == [k \in DOMAIN args |-> TrimSpace(args[k])]

\* strings.Replace(s, old, new, -1) from position i on, for a non-empty old:
\* every occurrence of old, found from left to right, becomes new
RECURSIVE Replace(_, _, _, _)
Replace(s, old, new, i) ==
    IF i > Len(s) THEN <<>>
    ELSE IF HasAt(s, old, i) THEN new \o Replace(s, old, new, i + Len(old))
    ELSE <<s[i]>> \o Replace(s, old, new, i + 1)

\* the arguments joined by "|"
RECURSIVE Join(_)
Join(args) ==
    IF args = <<>> THEN <<>>
    ELSE IF Len(args) = 1 THEN args[1]
    ELSE args[1] \o <<"|">> \o Join(Tail(args))

\* the expanders of the driver's table: pure functions of the arguments,
\* T[args] for time and F[args] for timeFilter
MacroFunc(name, args) ==
    (IF name = macroTime THEN <<"T">> ELSE <<"F">>) \o <<"[">> \o Join(args) \o <<"]">>

\* the inner loop of interpolate: each match is expanded with its trimmed
\* arguments, and match[0] is replaced wherever the SQL at hand has it
RECURSIVE interpolateMatches(_, _, _)
interpolateMatches(name, matches, rawSQL) ==
    IF matches = <<>> THEN rawSQL
    ELSE LET match == Head(matches)
             args == trimAll(Split(match.arg))
             res == MacroFunc(name, args)
         IN interpolateMatches(name, Tail(matches),
                               Replace(rawSQL, match.whole, res, 1))

\* interpolate, with the keys visited in the given order: the matches of a
\* macro are those in the SQL as the macros before it left it
RECURSIVE interpolate(_, _)
interpolate(order, rawSQL) ==
    IF order = <<>> THEN rawSQL
    ELSE interpolate(Tail(order),
                     interpolateMatches(Head(order),
                                        FindAllStringSubmatch(Head(order), rawSQL, 1),
                                        rawSQL))

\* what a call of interpolate leaves alone
interpolateFrame == <<systemVars, run, health, async, cancelReq, forward, exec, classify, timed>>

\* one call of interpolate on the query
Interpolate ==
    /\ interp.pc = "interpolate"
    /\ \E order \in Orders :
        interp' = [interp EXCEPT !.pc = "interpolated", !.order = order,
                                 !.out = interpolate(order, interp.sql)]
    /\ UNCHANGED interpolateFrame

\* a second call, on the SQL the first one returned
InterpolateAgain ==
    /\ interp.pc = "interpolated"
    /\ \E order \in Orders :
        interp' = [interp EXCEPT !.pc = "again",
                                 !.out2 = interpolate(order, interp.out)]
    /\ UNCHANGED interpolateFrame

\* interpolate alone: any query, on a datasource that does nothing else
InitInterpolate ==
    /\ IdleSystem
    /\ run = IdleRun
    /\ health = IdleHealth
    /\ async = IdleAsync
    /\ cancelReq = IdleCancel
    /\ interp \in InterpolateInputs
    /\ forward = IdleForward
    /\ exec = IdleExec
    /\ classify = IdleClassify
    /\ timed = IdleTimed

NextInterpolate ==
    \/ Interpolate
    \/ InterpolateAgain

SpecInterpolate == InitInterpolate /\ [][NextInterpolate]_vars

\* ------------------------------------------------------- header forwarding
\* the reserved key of the connection arguments
HeaderKey == "grafana-http-headers"

\* the headers of a request: http.Header, from a name to its values
HeaderValues ==
    {NoObject, ("foo" :> <<"bar">>), ("foo" :> <<"bar">>) @@ ("hey" :> <<"scott">>)}

\* the connection arguments a query JSON can carry: none, null, a text that
\* does not decode to an object, and objects with and without the reserved key
ArgObjects ==
    {NoObject,
     ("region" :> ("name" :> <<"eu">>)),
     (HeaderKey :> ("old" :> <<"v">>)),
     ("region" :> ("name" :> <<"eu">>)) @@ (HeaderKey :> ("old" :> <<"v">>))}
ArgValues ==
    {RawNil, Raw("null", NoObject), Raw("other", NoObject)}
        \cup {Raw("object", o) : o \in ArgObjects}

\* a request for a query with any connection arguments, or a health check
ForwardInputs ==
    {[IdleForward EXCEPT !.pc = "GetQuery", !.path = "query", !.forward = f,
                         !.args = a, !.headers = h, !.cached = c] :
        f \in BOOLEAN, a \in ArgValues, h \in HeaderValues, c \in BOOLEAN}
    \cup
    {[IdleForward EXCEPT !.pc = "Connect", !.path = "health", !.forward = f,
                         !.headers = h] :
        f \in BOOLEAN, h \in HeaderValues}

\* json.Unmarshal into a map[string]interface{}: an object gives its map, null
\* gives no error and leaves the map nil, every other text is an error
Unmarshal(raw) ==
    [err |-> raw.kind \notin {"object", "null"},
     isNil |-> raw.kind = "null",
     m |-> IF raw.kind = "object" THEN raw.fields ELSE NoObject]

\* json.Marshal of a map: the text of the object with its entries
Marshal(m) == Raw("object", m)

\* args[key] = value
SetKey(m, key, value) ==
    [k \in DOMAIN m \cup {key} |-> IF k = key THEN value ELSE m[k]]

\* applyHeaders: absent arguments become {}, arguments that do not decode are
\* left as they are, a write into the nil map of null panics
applyHeaders(connectionArgs, headers) ==
    LET raw == IF connectionArgs.kind = "nil" THEN Raw("object", NoObject)
               ELSE connectionArgs
        args == Unmarshal(raw)
    IN  IF args.err THEN [panic |-> FALSE, args |-> raw]
        ELSE IF args.isNil THEN [panic |-> TRUE, args |-> raw]
        ELSE [panic |-> FALSE, args |-> Marshal(SetKey(args.m, HeaderKey, headers))]

\* what the operations on a forwarded request leave alone
forwardFrame == <<systemVars, run, health, async, cancelReq, interp, exec, classify, timed>>

\* the query handler passes DriverSettings.ForwardHeaders as setHeaders
SetHeaders(f) == f.forward

\* GetQuery: decode the query, then apply the headers if setHeaders
GetQuery ==
    /\ forward.pc = "GetQuery"
    /\ LET model == forward.args
           applied == applyHeaders(model, forward.headers)
       IN  IF ~SetHeaders(forward)
           THEN forward' = [forward EXCEPT !.pc = "resolve", !.q = model]
           ELSE IF applied.panic
           THEN forward' = [forward EXCEPT !.pc = "done", !.panicked = TRUE]
           ELSE forward' = [forward EXCEPT !.pc = "resolve", !.q = applied.args]
    /\ UNCHANGED forwardFrame

\* Connector.GetConnectionFromQuery for the decoded query: a cached connection
\* is returned, otherwise the driver's Connect is called with q.ConnectionArgs
ForwardedGetConnectionFromQuery ==
    /\ forward.pc = "resolve"
    /\ IF forward.cached
       THEN forward' = [forward EXCEPT !.pc = "done"]
       ELSE forward' = [forward EXCEPT !.pc = "done", !.connects = @ + 1,
                                       !.connArgs = forward.q]
    /\ UNCHANGED forwardFrame

\* Connector.connectWithRetries of a health check: the headers are applied to
\* an empty Query, whose ConnectionArgs Reconnect passes to the driver's Connect
ForwardedConnectWithRetries ==
    /\ forward.pc = "Connect"
    /\ LET applied == applyHeaders(RawNil, forward.headers)
           q == IF forward.forward THEN applied.args ELSE RawNil
       IN  forward' = [forward EXCEPT !.pc = "done", !.q = q,
                                      !.connects = @ + 1, !.connArgs = q]
    /\ UNCHANGED forwardFrame

\* header forwarding alone: any request, on a datasource that does nothing else
InitForward ==
    /\ IdleSystem
    /\ run = IdleRun
    /\ health = IdleHealth
    /\ async = IdleAsync
    /\ cancelReq = IdleCancel
    /\ interp = IdleInterpolate
    /\ forward \in ForwardInputs
    /\ exec = IdleExec
    /\ classify = IdleClassify
    /\ timed = IdleTimed

NextForward ==
    \/ GetQuery
    \/ ForwardedGetConnectionFromQuery
    \/ ForwardedConnectWithRetries

SpecForward == InitForward /\ [][NextForward]_vars

\* ------------------------------------------------------------ executed SQL
\* the formats of a query
\* (FormatOptionTimeSeries, FormatOptionTable, FormatOptionMulti)
Formats == {"timeseries", "table", "multi"}

\* the queries at the entry of handleQuery
ExecInputs ==
    {[IdleExec EXCEPT !.pc = "handleQuery", !.rawSQL = q, !.format = f,
                      !.long = l, !.zeroRows = z, !.fails = n, !.retries = r] :
        q \in Texts(2), f \in Formats, l \in BOOLEAN, z \in BOOLEAN,
        n \in 0..2, r \in 0..1}

\* data.LongToWide and timeseries.LongToMulti: the frames made from a long
\* frame, with the Meta of the frame they are made from
Converted(frame) == Frame("converted", frame.executed)

\* a frame whose ExecutedQueryString is left empty
FrameWithoutSQL(rawSQL) == Frame("data", <<>>)
\* sqlutil.FrameFromRows and frame.Meta.ExecutedQueryString = query.RawSQL
FrameWithSQL(rawSQL) == Frame("data", rawSQL)

\* getFrames: the frame of the rows with query.RawSQL in its Meta; a time
\* series without rows is ErrorNoResults, a long time series is converted
getFrames(format, long, zeroRows, rawSQL) ==
    LET frame == FrameWithSQL(rawSQL)
    IN  IF format = "table" THEN [frames |-> frame, err |-> "nil"]
        ELSE IF zeroRows THEN [frames |-> NoFrame, err |-> "ErrorNoResults"]
        ELSE IF long THEN [frames |-> Converted(frame), err |-> "nil"]
        ELSE [frames |-> frame, err |-> "nil"]

\* getErrorFrameFromQuery: an empty frame with query.RawSQL in its Meta
getErrorFrameFromQuery(rawSQL) == Frame("error", rawSQL)

\* query: QueryContext with query.RawSQL, then getFrames; every error comes
\* with the error frame of the query
query(failing, format, long, zeroRows, rawSQL) ==
    IF failing THEN [frames |-> getErrorFrameFromQuery(rawSQL), err |-> "ErrorQuery"]
    ELSE LET res == getFrames(format, long, zeroRows, rawSQL)
         IN  IF res.err = "nil" THEN res
             ELSE [frames |-> getErrorFrameFromQuery(rawSQL), err |-> res.err]

\* what a query on its way leaves alone
execFrame == <<systemVars, run, health, async, cancelReq, interp, forward, classify, timed>>

\* handleQuery, up to the first attempt: q.RawSQL becomes the SQL that
\* Interpolate returns for it
ExecInterpolate ==
    /\ exec.pc = "handleQuery"
    /\ \E order \in Orders :
        exec' = [exec EXCEPT !.pc = "QueryDB",
                             !.sql = interpolate(order, exec.rawSQL)]
    /\ UNCHANGED execFrame

\* handleQuery, one attempt: QueryDB with q.  The first attempt returns its
\* frames when it has no error or ErrorNoResults; a retry returns its frames
\* only without an error; when the attempts are used up handleQuery returns
\* nil frames and the error of the first attempt
ExecQueryDB ==
    /\ exec.pc = "QueryDB"
    /\ LET first == exec.attempt = 0
           res == query(exec.attempt < exec.fails, exec.format, exec.long,
                        exec.zeroRows, exec.sql)
           passed == Append(exec.passed, exec.sql)
           firstErr == IF first THEN res.err ELSE exec.firstErr
           success == res.err = "nil" \/ (first /\ res.err = "ErrorNoResults")
           again == /\ firstErr = "ErrorQuery"
                    /\ RetryLoopCondition(exec.attempt, exec.retries)
       IN  exec' =
             IF success
             THEN [exec EXCEPT !.pc = "returned", !.passed = passed,
                               !.attempt = @ + 1, !.firstErr = firstErr,
                               !.frame = res.frames, !.err = "nil"]
             ELSE IF again
             THEN [exec EXCEPT !.passed = passed, !.attempt = @ + 1,
                               !.firstErr = firstErr]
             ELSE [exec EXCEPT !.pc = "returned", !.passed = passed,
                               !.attempt = @ + 1, !.firstErr = firstErr,
                               !.frame = NoFrame, !.err = firstErr]
    /\ UNCHANGED execFrame

\* the SQL path alone: any query, on a datasource that does nothing else
InitExec ==
    /\ IdleSystem
    /\ run = IdleRun
    /\ health = IdleHealth
    /\ async = IdleAsync
    /\ cancelReq = IdleCancel
    /\ interp = IdleInterpolate
    /\ forward = IdleForward
    /\ exec \in ExecInputs
    /\ classify = IdleClassify
    /\ timed = IdleTimed

NextExec ==
    \/ ExecInterpolate
    \/ ExecQueryDB

SpecExec == InitExec /\ [][NextExec]_vars

\* ------------------------------------------------------------ ClassifyError
\* the texts of the errors a driver reports, and of their parts
ErrorMessages ==
    {<<"C", "o", "n", "n", "e", "c", "t", "i", "o", "n", " ", "C", "l", "o", "s", "e", "d">>,
     <<"c", "o", "n", "n", "e", "c", "t", "i", "o", "n", " ", "r", "e", "s", "e", "t", " ", "b", "y", " ", "p", "e", "e", "r">>,
     <<"d", "i", "a", "l", " ", "t", "c", "p", ":", " ", "c", "o", "n", "n", "e", "c", "t", "i", "o", "n", " ", "r", "e", "f", "u", "s", "e", "d">>,
     <<"w", "r", "i", "t", "e", ":", " ", "b", "r", "o", "k", "e", "n", " ", "p", "i", "p", "e">>,
     <<"u", "n", "e", "x", "p", "e", "c", "t", "e", "d", " ", "E", "O", "F">>,
     <<"c", "o", "n", "t", "e", "x", "t", " ", "c", "a", "n", "c", "e", "l", "e", "d">>,
     <<"c", "o", "n", "t", "e", "x", "t", " ", "d", "e", "a", "d", "l", "i", "n", "e", " ", "e", "x", "c", "e", "e", "d", "e", "d">>,
     <<"p", "g", "c", "o", "n", "n", ":", " ", "f", "a", "i", "l", "e", "d">>,
     <<"c", "o", "n", "n", " ", "i", "s", " ", "c", "l", "o", "s", "e", "d">>,
     <<"d", "r", "i", "v", "e", "r", ":", " ", "b", "a", "d", " ", "c", "o", "n", "n", "e", "c", "t", "i", "o", "n">>,
     <<"r", "u", "n", "t", "i", "m", "e", " ", "e", "r", "r", "o", "r", ":", " ", "i", "n", "v", "a", "l", "i", "d", " ", "m", "e", "m", "o", "r", "y", " ", "a", "d", "d", "r", "e", "s", "s", " ", "o", "r", " ", "n", "i", "l", " ", "p", "o", "i", "n", "t", "e", "r", " ", "d", "e", "r", "e", "f", "e", "r", "e", "n", "c", "e">>,
     <<"N", "i", "l", " ", "P", "o", "i", "n", "t", "e", "r", " ", "D", "e", "r", "e", "f", "e", "r", "e", "n", "c", "e">>,
     <<"s", "y", "n", "t", "a", "x", " ", "e", "r", "r", "o", "r", " ", "a", "t", " ", "p", "o", "s", "i", "t", "i", "o", "n", " ", "1">>,
     <<"c", "o", "n", "n", "e", "c", "t", "i", "o", "n">>,
     <<"c", "l", "o", "s", "e", "d">>,
     <<"n", "i", "l", " ", "p", "o", "i", "n", "t", "e", "r">>}

\* the errors at the entry of ClassifyError: nil, and every error with one of
\* the texts or two of them joined by ": "
ClassifyInputs ==
    {[IdleClassify EXCEPT !.pc = "ClassifyError", !.err = e] :
        e \in {NoError} \cup
              {ErrorValue(t, r, d) :
                 t \in ErrorMessages \cup
                       {a \o <<":", " ">> \o b : a, b \in ErrorMessages},
                 r \in BOOLEAN, d \in BOOLEAN}}

\* the lower-case letter of a character
LowerCase(ch) ==
    CASE ch = "C" -> "c"
      [] ch = "D" -> "d"
      [] ch = "E" -> "e"
      [] ch = "F" -> "f"
      [] ch = "N" -> "n"
      [] ch = "O" -> "o"
      [] ch = "P" -> "p"
      [] OTHER -> ch

\* strings.ToLower
ToLower(s) == [i \in 1..Len(s) |-> LowerCase(s[i])]

\* strings.Contains
Contains(s, substr) == \E i \in 1..Len(s) : HasAt(s, substr, i)

\* the list pgxConnectionErrors of IsPGXConnectionError
pgxConnectionErrors ==
    <<<<"c", "o", "n", "n", "e", "c", "t", "i", "o", "n", " ", "c", "l", "o", "s", "e", "d">>,
     <<"c", "o", "n", "n", "e", "c", "t", "i", "o", "n", " ", "r", "e", "s", "e", "t">>,
     <<"c", "o", "n", "n", "e", "c", "t", "i", "o", "n", " ", "r", "e", "f", "u", "s", "e", "d">>,
     <<"b", "r", "o", "k", "e", "n", " ", "p", "i", "p", "e">>,
     <<"e", "o", "f">>,
     <<"c", "o", "n", "t", "e", "x", "t", " ", "c", "a", "n", "c", "e", "l", "e", "d">>,
     <<"c", "o", "n", "t", "e", "x", "t", " ", "d", "e", "a", "d", "l", "i", "n", "e", " ", "e", "x", "c", "e", "e", "d", "e", "d">>,
     <<"p", "g", "c", "o", "n", "n">>,
     <<"c", "o", "n", "n", " ", "i", "s", " ", "c", "l", "o", "s", "e", "d">>,
     <<"b", "a", "d", " ", "c", "o", "n", "n", "e", "c", "t", "i", "o", "n">>>>

\* the list genericDownstreamErrors of IsGenericDownstreamError
genericDownstreamErrors ==
    <<<<"i", "n", "v", "a", "l", "i", "d", " ", "m", "e", "m", "o", "r", "y", " ", "a", "d", "d", "r", "e", "s", "s">>,
     <<"n", "i", "l", " ", "p", "o", "i", "n", "t", "e", "r", " ", "d", "e", "r", "e", "f", "e", "r", "e", "n", "c", "e">>>>

\* a loop that looks at the first element only
ContainsFirst(errStr, list) == list # <<>> /\ Contains(errStr, Head(list))

\* the loop of both functions: the first element the lower-cased text contains
RECURSIVE ContainsAny(_, _)
ContainsAny(errStr, list) ==
    IF list = <<>> THEN FALSE
    ELSE IF Contains(errStr, Head(list)) THEN TRUE
    ELSE ContainsAny(errStr, Tail(list))

IsPGXConnectionError(err) ==
    IF err.isNil THEN FALSE
    ELSE ContainsAny(ToLower(err.text), pgxConnectionErrors)

IsGenericDownstreamError(err) ==
    IF err.isNil THEN FALSE
    ELSE ContainsAny(ToLower(err.text), genericDownstreamErrors)

\* ErrorPGXLifecycle, the error returned in place of a connection error
ErrorPGXLifecycle ==
    ErrorValue(<<"P", "G", "X">>, FALSE, FALSE)

\* ClassifyError: the source and the error it returns
ClassifyError(err) ==
    IF err.isNil THEN [source |-> "plugin", err |-> NoError]
    ELSE IF IsGenericDownstreamError(err) THEN [source |-> "downstream", err |-> err]
    ELSE IF IsPGXConnectionError(err)
         THEN [source |-> "downstream", err |-> ErrorPGXLifecycle]
    ELSE IF err.rowValidation THEN [source |-> "downstream", err |-> err]
    ELSE IF err.downstream THEN [source |-> "downstream", err |-> err]
    ELSE [source |-> "plugin", err |-> err]

\* what a call of ClassifyError leaves alone
classifyFrame == <<systemVars, run, health, async, cancelReq, interp, forward, exec, timed>>

\* one call of ClassifyError
Classify ==
    /\ classify.pc = "ClassifyError"
    /\ LET res == ClassifyError(classify.err)
       IN  classify' = [classify EXCEPT !.pc = "returned",
                                        !.source = res.source, !.out = res.err]
    /\ UNCHANGED classifyFrame

\* ClassifyError alone: any error, on a datasource that does nothing else
InitClassify ==
    /\ IdleSystem
    /\ run = IdleRun
    /\ health = IdleHealth
    /\ async = IdleAsync
    /\ cancelReq = IdleCancel
    /\ interp = IdleInterpolate
    /\ forward = IdleForward
    /\ exec = IdleExec
    /\ classify \in ClassifyInputs
    /\ timed = IdleTimed

NextClassify == Classify

SpecClassify == InitClassify /\ [][NextClassify]_vars

\* ------------------------------------------------------- the query timeout
\* the queries at the entry of handleQuery
TimedInputs ==
    {[IdleTimed EXCEPT !.pc = "handleQuery", !.timeout = t, !.retries = r,
                       !.pause = p] :
        t \in BOOLEAN, r \in RetriesRange, p \in BOOLEAN}

\* what one QueryDB call can do: while the deadline of its context has not
\* passed, frames, ErrorNoResults, a query error, another error, or a panic
\* of a converter; once it has passed, QueryContext fails with the deadline
\* error, which query wraps into ErrorQuery as text, or rows.Err() reports it
\* and the wrapped error is a context.DeadlineExceeded
TimedOutcomes(late) ==
    IF late THEN {"ErrorQuery", "DeadlineExceeded"}
    ELSE {"ok", "ErrorNoResults", "ErrorQuery", "other", "panic"}

\* a context made for the attempt
AttemptContextFresh(c) == "fresh"
\* the context an attempt is given: the ctx of handleQuery
AttemptContext(c) == c.ctx

\* whether the deadline of the context of an attempt has passed
Late(c) == AttemptContext(c) = "tctx" /\ c.expired

\* a return of handleQuery: the deferred cancel of the context it made runs
TimedReturn(c, result) ==
    [c EXCEPT !.pc = "returned", !.result = result, !.released = c.created > 0]

\* a QueryDB call is noted with its context
TimedAttempt(c) ==
    [c EXCEPT !.used = Append(c.used, [ctx |-> AttemptContext(c), late |-> Late(c)])]

\* what a query in this specification leaves alone
timedFrame ==
    <<systemVars, run, health, async, cancelReq, interp, forward, exec, classify>>

\* handleQuery up to the first attempt: the connection is resolved, which can
\* fail, and with a Timeout the context is made and its cancel deferred
TimedBegin ==
    /\ timed.pc = "handleQuery"
    /\ \E ok \in BOOLEAN :
         timed' = IF ~ok THEN TimedReturn(timed, "error")
                  ELSE IF timed.timeout
                  THEN [timed EXCEPT !.pc = "QueryDB", !.created = @ + 1,
                                     !.ctx = "tctx"]
                  ELSE [timed EXCEPT !.pc = "QueryDB"]
    /\ UNCHANGED timedFrame

\* time goes by: the deadline of the context handleQuery made passes
DeadlinePasses ==
    /\ timed.pc \in {"QueryDB", "dbReconnect", "pause", "retryQueryDB"}
    /\ timed.created > 0
    /\ ~timed.expired
    /\ timed' = [timed EXCEPT !.expired = TRUE]
    /\ UNCHANGED timedFrame

\* the end of an iteration that did not return
TimedLoopNext(c) ==
    IF RetryLoopCondition(c.i + 1, c.retries)
    THEN [c EXCEPT !.pc = "dbReconnect", !.i = c.i + 1]
    ELSE TimedReturn(c, "error")

\* the first QueryDB call and the choice of a retry loop
TimedQueryDB ==
    /\ timed.pc = "QueryDB"
    /\ \E out \in TimedOutcomes(Late(timed)) :
         LET c == TimedAttempt(timed)
         IN  timed' =
               CASE out \in {"ok", "ErrorNoResults"} -> TimedReturn(c, "frames")
                 [] out = "panic" ->
                      [TimedReturn(c, "panic") EXCEPT !.pc = "panicked"]
                 [] out \in {"ErrorQuery", "DeadlineExceeded"}
                    /\ RetryLoopCondition(0, c.retries) ->
                      [c EXCEPT !.pc = "dbReconnect", !.i = 0,
                                !.loop = IF out = "ErrorQuery" THEN "query"
                                         ELSE "timeout"]
                 [] OTHER -> TimedReturn(c, "error")
    /\ UNCHANGED timedFrame

\* dbReconnect of a retry: Close and Connect take no context; a failure ends
\* the query-error loop and lets the timeout loop continue
TimedReconnect ==
    /\ timed.pc = "dbReconnect"
    /\ \E ok \in BOOLEAN :
         timed' = IF ok
                  THEN [timed EXCEPT !.pc = IF timed.loop = "query" /\ timed.pause
                                            THEN "pause" ELSE "retryQueryDB"]
                  ELSE IF timed.loop = "query" THEN TimedReturn(timed, "error")
                  ELSE TimedLoopNext(timed)
    /\ UNCHANGED timedFrame

\* the pause of the query-error loop: time.Sleep, which takes no context
TimedPause ==
    /\ timed.pc = "pause"
    /\ timed' = [timed EXCEPT !.pc = "retryQueryDB"]
    /\ UNCHANGED timedFrame

\* the QueryDB call of a retry, with the ctx of handleQuery
TimedRetry ==
    /\ timed.pc = "retryQueryDB"
    /\ \E out \in TimedOutcomes(Late(timed)) :
         LET c == TimedAttempt(timed)
         IN  timed' =
               CASE out = "ok" -> TimedReturn(c, "frames")
                 [] out = "panic" ->
                      [TimedReturn(c, "panic") EXCEPT !.pc = "panicked"]
                 [] OTHER -> TimedLoopNext(c)
    /\ UNCHANGED timedFrame

\* the timeout of a query alone, on a datasource that does nothing else
InitTimed ==
    /\ IdleSystem
    /\ run = IdleRun
    /\ health = IdleHealth
    /\ async = IdleAsync
    /\ cancelReq = IdleCancel
    /\ interp = IdleInterpolate
    /\ forward = IdleForward
    /\ exec = IdleExec
    /\ classify = IdleClassify
    /\ timed \in TimedInputs

NextTimed ==
    \/ TimedBegin
    \/ DeadlinePasses
    \/ TimedQueryDB
    \/ TimedReconnect
    \/ TimedPause
    \/ TimedRetry

SpecTimed == InitTimed /\ [][NextTimed]_vars

\* ===================================================================== claims
\* the query goroutines that have returned
ReturnedQueries == {t \in Tasks : task[t].op = "handleQuery" /\ task[t].pc = "done"}
\* the response entry of goroutine t
Entry(t) == responses[RefID(t)]

\* C1: a query each of whose attempts reached the driver's execute and failed
\* there with an error that contains an element of RetryOn, and each of whose
\* reconnects was granted by the driver's Connect, has called execute exactly
\* Retries + 1 times when its goroutine returns, and its response entry
\* carries an error.
C1_ExecuteCalledRetriesPlusOne ==
    \A t \in ReturnedQueries :
        (task[t].attempts >= 1 /\ task[t].allMatch /\ Entry(t).Error # ErrorConnect)
            => /\ task[t].execs = settings.Retries + 1
               /\ Entry(t).Error # NilErr

\* C1, its case: a query with Retries = 2 has returned after three failed
\* executes
C1_Witness ==
    \E t \in ReturnedQueries :
        /\ settings.Retries = 2
        /\ task[t].allMatch
        /\ task[t].execs = 3
        /\ Entry(t).Error.kind = "ErrorQuery"

\* C2: a query whose execute failed with a query error that contains no
\* element of RetryOn has called execute exactly once when its goroutine
\* returns: no reconnect and no second attempt happened.
C2_NoRetryWithoutMatch ==
    \A t \in ReturnedQueries :
        (task[t].err.kind = "ErrorQuery" /\ ~task[t].err.match /\ task[t].execs >= 1)
            => /\ task[t].execs = 1
               /\ task[t].attempts = 1
               /\ task[t].opens = 0

\* goroutine t is inside a reconnect (dbReconnect or Connector.Reconnect),
\* at its call of the driver's Connect
InReconnectConnect(t) == task[t].pc \in {"dbReconnectConnect", "ReconnectConnect"}

\* C3: a step in which the driver's Connect of a reconnect for cache key K
\* succeeds ends the reconnect without error, whether the Close of the old
\* handle failed or not; right after it get(K) returns the newly opened handle
\* paired with the settings of the connection passed in, the new handle is
\* open, and the handle passed in has been closed.
C3_ReconnectSwapsHandle ==
    [][\A t \in Tasks :
         (InReconnectConnect(t) /\ task'[t] # task[t] /\ faults' = faults)
            => /\ task'[t].pc \in {"retryQueryDB", "connect"}
               /\ task'[t].db # task[t].dbConn.db
               /\ task'[t].db \notin closed'
               /\ getDBConnection(connections', task[t].cacheKey)
                    = [conn |-> DbConnection(task'[t].db, task[t].dbConn.settings),
                       ok |-> TRUE]
               /\ task[t].dbConn.db \in closed']_vars

\* C3, its case: a reconnect has returned a new handle after the Close of the
\* old handle failed, and the cache serves the new handle under the key
C3_Witness ==
    \E t \in Tasks :
        /\ task[t].pc \in {"retryQueryDB", "connect"}
        /\ task[t].closeFailed
        /\ task[t].opens >= 1
        /\ connections[task[t].cacheKey].db = task[t].db
        /\ task[t].dbConn.db \in closed

\* C4: whenever the reconnect of a retry (query retry, timeout retry,
\* health-check retry) stores a handle under a cache key that holds a handle,
\* the handle it replaces has been closed: no retry drops an open handle from
\* the cache.
C4_ClosedBeforeReplaced ==
    [][\A t \in Tasks : \A k \in Keys :
         (InReconnectConnect(t) /\ task'[t] # task[t]
            /\ connections[k] # NoConn /\ connections'[k] # connections[k])
            => connections[k].db \in closed']_vars

\* C5: when QueryData has returned, every goroutine of the batch has finished
\* and the response holds an entry for the RefID of each query of the batch
\* and for no other RefID.
C5_OneEntryPerRefID ==
    batch = "returned"
        => \A t \in Tasks :
             /\ task[t].pc \in {"idle", "done"}
             /\ (Entry(t) # <<>>) <=> (task[t].pc = "done")

\* C5, its case: a batch of two queries has returned, one entry with an error
\* and one without
C5_Witness ==
    /\ batch = "returned"
    /\ \E t, u \in ReturnedQueries :
         /\ Entry(t).Error # NilErr
         /\ Entry(u).Error = NilErr
         /\ Entry(u).Frames = DataFrames

\* C6: a query whose macro expander panics ends like any failed query: its
\* goroutine returns, its response entry carries the panic as an error and
\* the process lives on, so that the batch can return.
C6_PanicBecomesError ==
    \A t \in Tasks :
        (task[t].input = "macroPanic" /\ task[t].pc \notin {"idle", "handleQuery"})
            => /\ task[t].pc = "done"
               /\ Entry(t) # <<>>
               /\ Entry(t).Error.kind = "panic"
               /\ ~crashed

\* C7: when Connector.Dispose has returned and no other goroutine has written
\* the cache since it started, the cache holds no entry and every handle that
\* was in the cache when Dispose started has been closed.
C7_DisposeClosesAndEmpties ==
    (component = "Connector" /\ lifecycle = "disposed" /\ ~interfered)
        => /\ CachedKeys(connections) = {}
           /\ CachedHandles(disposeStart) \subseteq closed

\* C7, its case: Dispose has returned from a cache of at least two handles,
\* one of them opened for the connection args of a query
C7_Witness ==
    /\ component = "Connector"
    /\ lifecycle = "disposed"
    /\ ~interfered
    /\ Cardinality(CachedHandles(disposeStart)) >= 2
    /\ disposeStart[datasourceCacheKey(UID, "a")] # NoConn

\* C8: SQLDatasource.Dispose leaves the cache as it is: every entry keeps its
\* handle and no handle is closed.
C8_DisposeKeepsCache ==
    [][(component = "SQLDatasource" /\ lifecycle = "live" /\ lifecycle' = "disposed")
         => (connections' = connections /\ closed' = closed)]_vars

\* C8, its case: the datasource was disposed with two entries in its cache,
\* both still there
C8_Witness ==
    /\ component = "SQLDatasource"
    /\ lifecycle = "disposed"
    /\ Cardinality(CachedKeys(connections)) >= 2
    /\ \E t \in Tasks : task[t].pc \notin {"idle", "done", "panicked"}

\* the key of the default entry
DefaultCacheKey == <<UID, "default">>

C10_ArgsNeedMultipleConnections ==
    \A t \in Tasks :
        (~settings.EnableMultipleConnections /\ task[t].args # emptyConnArgs
            /\ task[t].op \in {"handleQuery", "GetConnectionFromQuery"}
            /\ task[t].pc # "handleQuery")
            => /\ task[t].pc = "done"
               /\ task[t].opens = 0
               /\ task[t].op = "handleQuery"
                    => Entry(t).Error = ErrorMissingMultipleConnectionsConfig
               /\ task[t].op = "GetConnectionFromQuery"
                    => task[t].err = ErrorMissingMultipleConnectionsConfig

\* goroutine t takes the first step of a connection resolution for a query:
\* getDBConnectionFromQuery in handleQuery, or Connector.GetConnectionFromQuery
ResolutionBegins(t) ==
    /\ task'[t] # task[t]
    /\ \/ task[t].pc = "handleQuery" /\ task[t].input = "ok"
       \/ task[t].pc = "idle" /\ task'[t].op = "GetConnectionFromQuery"

\* C11: a connection resolution for a query that starts when the cache holds
\* no default entry (the query has no connection args, or multiple
\* connections are enabled) fails at once with ErrorMissingDBConnection, in
\* SQLDatasource and in Connector alike: it does not go on to the driver's
\* Connect and the cache stays as it is.
C11_NoDefaultEntryIsAnError ==
    [][\A t \in Tasks :
         (/\ ResolutionBegins(t)
          /\ connections[DefaultCacheKey] = NoConn
          /\ settings.EnableMultipleConnections \/ task'[t].args = emptyConnArgs)
            => /\ task'[t].pc = "done"
               /\ connections' = connections
               /\ connectCalls' = connectCalls
               /\ task'[t].op = "handleQuery"
                    => responses'[RefID(t)].Error = ErrorMissingDBConnection
               /\ task'[t].op = "GetConnectionFromQuery"
                    => task'[t].err = ErrorMissingDBConnection]_vars

\* the query goroutines whose resolution for connection args a went as in rs
Resolved(a, rs) ==
    {t \in Tasks : /\ task[t].op = "handleQuery"
                   /\ task[t].args = a
                   /\ task[t].resolution \in rs}
\* no two connection resolutions overlapped
NonOverlapping == \A t \in Tasks : ~task[t].overlap

\* the state part of C12
C12_OneConnectPerArgs ==
    (/\ component = "SQLDatasource"
     /\ settings.EnableMultipleConnections
     /\ NonOverlapping)
        => /\ \A a \in ArgsSet :
                /\ Cardinality(Resolved(a, {"opened"})) <= 1
                /\ Cardinality(Resolved(a, {"miss"})) <= 1
                /\ Resolved(a, {"opened"}) # {} => Resolved(a, {"miss"}) = {}
                /\ a = emptyConnArgs => Resolved(a, {"miss", "opened", "failed"}) = {}
           /\ lifecycle \in {"live", "disposed"}
                => CachedKeys(connections) =
                      {defaultKey(UID)}
                      \cup {keyWithConnectionArgs(UID, a) :
                              a \in {b \in ArgsSet : Resolved(b, {"opened"}) # {}}}

\* the step part of C12
C12_HitOrMissStep ==
    \A t \in Tasks :
        (/\ component = "SQLDatasource"
         /\ settings.EnableMultipleConnections
         /\ task'[t] # task[t]) =>
            /\ (task[t].pc = "handleQuery" /\ task'[t].resolution = "cached")
                  => /\ connectCalls' = connectCalls
                     /\ connections' = connections
                     /\ task'[t].pc = "QueryDB"
                     /\ task'[t].db = connections[task'[t].cacheKey].db
                     /\ task'[t].cacheKey =
                           IF task[t].args = emptyConnArgs THEN defaultKey(UID)
                           ELSE keyWithConnectionArgs(UID, task[t].args)
            /\ (task[t].pc = "handleQuery" /\ task'[t].resolution = "miss")
                  => /\ connectCalls' = connectCalls
                     /\ connections[keyWithConnectionArgs(UID, task[t].args)] = NoConn
            /\ (task[t].pc = "Connect")
                  => /\ connectCalls' = connectCalls + 1
                     /\ task'[t].resolution \in {"opened", "failed"}
                     /\ task'[t].resolution = "opened"
                          => /\ task'[t].pc = "QueryDB"
                             /\ task'[t].db \notin CachedHandles(connections)
                             /\ connections' =
                                  [connections EXCEPT
                                     ![keyWithConnectionArgs(UID, task[t].args)] =
                                        DbConnection(task'[t].db, InstanceSettings)]
                     /\ task'[t].resolution = "failed" => connections' = connections

ResolutionHandle(t) == <<t, 1>>

\* C13: when two goroutines have missed the cache for the same key and each
\* has opened a handle in its resolution (neither has reconnected since), the
\* cache holds one of the two handles under the key and the other handle has
\* been closed.
C13_LosingHandleClosed ==
    \A t, u \in Tasks :
        (/\ t # u
         /\ task[t].op \in {"handleQuery", "GetConnectionFromQuery"}
         /\ task[u].op = task[t].op
         /\ task[t].args = task[u].args
         /\ task[t].resolution = "opened" /\ task[u].resolution = "opened"
         /\ \A v \in Tasks : task[v].opens <= 1
         /\ lifecycle = "live")
            => \E win \in {t, u} : \E lose \in {t, u} \ {win} :
                 /\ ResolutionHandle(win) \in CachedHandles(connections)
                 /\ ResolutionHandle(win) \notin closed
                 /\ ResolutionHandle(lose) \in closed

\* C14: when DBQuery.Run has ended it has called QueryContext exactly once;
\* if QueryContext failed with context.Canceled the returned error is
\* context.Canceled and is not ErrorQuery; if QueryContext failed with any
\* other error the returned error is ErrorQuery.
C14_RunCallsQueryContextOnce ==
    /\ run.calls <= 1
    /\ run.pc \in {"returned", "panicked"} => run.calls = 1
    /\ (run.pc = "returned" /\ run.queryContext = "Canceled")
          => /\ run.err.kind = "Canceled"
             /\ ~IsRetriedQueryError(run.err)
    /\ (run.pc = "returned" /\ run.queryContext \in {"DeadlineExceeded", "other"})
          => run.err.kind = "ErrorQuery"

\* C14, its case: Run has returned after a QueryContext that failed with
\* context.Canceled
C14_Witness ==
    /\ run.pc = "returned"
    /\ run.queryContext = "Canceled"
    /\ run.calls = 1
    /\ run.err.kind = "Canceled"

\* C15: when QueryContext failed because the context deadline was exceeded,
\* the error the runner returns is context.DeadlineExceeded for errors.Is, so
\* that handleQuery takes its deadline-exceeded retry loop and not its
\* query-error retry loop.
C15_DeadlinePassesThrough ==
    (run.pc = "returned" /\ run.queryContext = "DeadlineExceeded")
        => /\ IsDeadlineExceeded(run.err)
           /\ ~IsRetriedQueryError(run.err)

\* C19: when the query runner has ended, by a return or by a panic, after
\* QueryContext returned a rows cursor, the cursor has been closed.
C19_CursorClosedOnEveryExit ==
    (run.pc \in {"returned", "panicked"} /\ run.cursor # "none")
        => run.cursor = "closed"

\* C16: a query one of whose QueryDB calls reported ErrorNoResults ended with
\* that call: its goroutine has returned, its response entry carries no error
\* and the runner's frame, and it made no attempt and opened no handle after
\* it.
C16_NoResultsIsTerminal ==
    \A t \in Tasks :
        (task[t].op = "handleQuery" /\ task[t].noResults)
            => /\ task[t].pc = "done"
               /\ Entry(t).Error = NilErr
               /\ Entry(t).Frames = ErrorFrame

\* the per-query errors of the batch
BatchErrors == {Entry(t).Error : t \in ReturnedQueries} \ {NilErr}
\* errors.Join of a set of errors, nil for none
Joined(errs) == IF errs = {} THEN NilErr ELSE [kind |-> "joined", errs |-> errs]

\* C17: when QueryData has returned, the error returned beside the response
\* is the join of the per-query errors of the batch (nil if no query failed)
\* if DriverSettings.Errors is enabled, and nil if it is disabled.
C17_ErrorsSettingJoinsErrors ==
    batch = "returned"
        => topLevelErr = IF settings.Errors THEN Joined(BatchErrors) ELSE NilErr

\* goroutine t is at the top of an iteration of a retry loop, of handleQuery
\* (before dbReconnect) or of connectWithRetries (before Reconnect), after an
\* attempt that failed
AtRetryIteration(t) ==
    /\ task[t].pc \in {"dbReconnect", "Reconnect"}
    /\ task[t].attempts >= 1

\* C18: a goroutine that is at the top of an iteration of its retry loop
\* when the context of its request has been cancelled aborts: its next step
\* is its return, it starts no reconnect, Connect, query or ping.
C18_RetryObservesCancellation ==
    [][\A t \in Tasks :
         (cancelled /\ AtRetryIteration(t) /\ task'[t] # task[t])
            => /\ task'[t].pc = "done"
               /\ connectCalls' = connectCalls
               /\ closed' = closed]_vars

\* C20: a step of a query goroutine taken while a sibling goroutine of the
\* batch is running leaves the driver's macro table as it is: the tasks
\* write the connection cache and the response and nothing else they share.
C20_TasksWriteOnlyTheCache ==
    [][\A t \in Tasks :
         (/\ task[t].op = "handleQuery"
          /\ task'[t] # task[t]
          /\ \E u \in Tasks \ {t} :
                task[u].op = "handleQuery" /\ task[u].pc \notin {"done", "panicked"})
            => macros' = macros]_vars

\* the health check has returned
HealthDone == health.pc = "done"
\* every ping of the health check failed with an error that contains an
\* element of RetryOn, and no Connect of the driver was refused
EveryPingFailedMatching ==
    /\ health.pings >= 1
    /\ health.allMatch
    /\ health.result # HealthError(ErrorConnect)

\* C21: a health check with Retries = k > 0 each of whose pings failed with
\* an error that contains an element of RetryOn has pinged exactly k times
\* when it returns, and its result has status Error and the error of the
\* last ping as message.
C21_HealthCheckPingsRetriesTimes ==
    (HealthDone /\ health.retries > 0 /\ EveryPingFailedMatching)
        => /\ health.pings = health.retries
           /\ health.result = HealthError(HealthPingError("match", health.pings))

\* C21, its case: a health check of the SQLDatasource with Retries = 2 has
\* returned after two failed pings
C21_Witness ==
    /\ HealthDone
    /\ health.impl = "SQLDatasource"
    /\ health.retries = 2
    /\ health.pings = 2
    /\ health.allMatch
    /\ health.result.Status = "Error"

\* C22: a health check that has pinged returns a nil Go error whatever the
\* ping gave, with Retries = 0 and with Retries > 0: a failed probe is
\* reported by the result alone (status Error, the error as message), a
\* successful one gives status Ok with "Data source is working".
C22_FailedProbeReturnsNilError ==
    (HealthDone /\ health.pings >= 1)
        => /\ health.err = NilErr
           /\ \/ health.result = HealthOk
              \/ /\ health.result.Status = "Error"
                 /\ health.result.Message # NilErr

\* C23: a returned HealthChecker.Check has run the pre-check, then connect
\* and ping, then the post-check: after a non-OK pre-check the result is an
\* Error and nothing was connected or pinged; a failed connect gives an Error
\* also with OK hooks; a non-OK post-check gives an Error also after a
\* successful ping; with absent or OK hooks and a successful ping the result
\* is Ok.
C23_PreCheckConnectPostCheck ==
    (HealthDone /\ health.impl = "HealthChecker")
        => /\ health.pre = "error"
                => /\ health.result.Status = "Error"
                   /\ health.pings = 0
                   /\ health.connects = 0
           /\ health.err # NilErr => health.result.Status = "Error"
           /\ health.post = "error" => health.result.Status = "Error"
           /\ (health.pre # "error" /\ health.post # "error" /\ health.err = NilErr)
                => health.result = HealthOk

\* the async request has returned
AsyncDone == async.pc = "done"

\* C24: a request of the async handler with an empty QueryID that returns
\* without error returns one frame whose meta is the ID startQuery gave with
\* the status "started", and has neither polled nor fetched; a request with
\* a QueryID polls the status once before anything else and, when the status
\* is not terminal, returns one frame whose meta is its QueryID with that
\* status, without a fetch; whenever rows have been fetched, or are about to
\* be, the poll of this request has reported a terminal status.
C24_RowsOnlyAfterTerminalStatus ==
    /\ (AsyncDone /\ async.queryID = "" /\ async.err = NilErr)
            => /\ async.frames =
                    MetaFrame(IF async.knownID # "" THEN async.knownID ELSE IssuedID,
                              "started")
               /\ async.starts = (IF async.knownID # "" THEN 0 ELSE 1)
    /\ async.queryID = "" => (async.polls = 0 /\ async.fetches = 0)
    /\ (AsyncDone /\ async.queryID # "" /\ async.err = NilErr
          /\ async.status \notin TerminalStatuses)
            => /\ async.polls = 1
               /\ async.status \in QueryStatuses
               /\ async.frames = MetaFrame(async.queryID, async.status)
               /\ async.fetches = 0
    /\ (async.fetches > 0 \/ async.pc \in {"queryAsync", "Connect"})
            => /\ async.polls = 1
               /\ async.status \in TerminalStatuses
               /\ async.starts = 0

\* C24, its case: a request with a QueryID has polled the status Finished
\* and then fetched the rows
C24_Witness ==
    /\ AsyncDone
    /\ async.queryID = "q1"
    /\ async.status = "Finished"
    /\ async.polls = 1
    /\ async.fetches = 1
    /\ async.frames = RowFrames

\* the /cancel request has been answered
CancelDone == cancelReq.pc = "done"
\* the request names a query and reaches the default connection's async handle
CancelReachesDriver ==
    /\ cancelReq.body \in CancelIDs
    /\ cancelReq.hasPlugin
    /\ cancelReq.hasDefault
    /\ cancelReq.hasAsyncDB

Min(a, b) == IF a < b THEN a ELSE b

\* C26: a run that returned frames for a query whose driver returned n rows
\* has produced a frame of exactly min(n, L) rows when the row limit L of the
\* datasource is positive, and of n rows when the limit is -1.
C26_FrameHasMinRowsLimit ==
    (run.pc = "returned" /\ run.frames = DataFrames)
        => run.frameRows = (IF run.rowLimit > 0 THEN Min(run.rows, run.rowLimit)
                            ELSE run.rows)

\* backend.IsDownstreamError on an error of handleQuery: the errors DBQuery.Run
\* builds with DownstreamError for a failed QueryContext carry the downstream
\* mark; the errors handleQuery builds itself with fmt.Errorf do not
IsDownstreamError(err) == err.kind \in {"ErrorQuery", "Canceled", "DeadlineExceeded"}
\* ErrorSource: downstream for a marked error, plugin otherwise
ErrorSource(err) == IF IsDownstreamError(err) THEN "downstream" ELSE "plugin"

\* C27: the response entry of a returned query whose macro expander returned
\* ErrorBadArgumentCount carries that error, wrapped by "Could not apply
\* macros" so that its text contains "unexpected number of arguments", its
\* error source is downstream, and the driver's execute was not called for
\* the query.
C27_MacroErrorIsDownstream ==
    \A t \in ReturnedQueries :
        task[t].input = "macroError"
            => /\ Entry(t).Error = ErrorMacro
               /\ ErrorSource(Entry(t).Error) = "downstream"
               /\ task[t].execs = 0

\* interpolate has returned for the query
InterpolateDone == interp.pc \in {"interpolated", "again"}
\* the matches of every macro in s
MatchesIn(s) ==
    UNION {{FindAllStringSubmatch(name, s, 1)[k] :
                k \in 1..Len(FindAllStringSubmatch(name, s, 1))} :
           name \in MacroNames}
\* no expander output for a token of s contains a macro token: the
\* expanders echo their arguments, and no argument holds a "$"
TokenFreeOutputs(s) ==
    \A m \in MatchesIn(s) : \A k \in 1..Len(m.arg) : m.arg[k] # "$"

\* s from position i on with every macro token replaced by the expander's
\* result for the arguments of that occurrence, and every other character kept
RECURSIVE EveryTokenExpanded(_, _)
EveryTokenExpanded(s, i) ==
    IF i > Len(s) THEN <<>>
    ELSE LET hits == {name \in MacroNames : MatchAt(name, s, i).found}
         IN IF hits = {} THEN <<s[i]>> \o EveryTokenExpanded(s, i + 1)
            ELSE LET name == CHOOSE n \in hits : TRUE
                     m == MatchAt(name, s, i)
                 IN MacroFunc(name, trimAll(Split(m.arg)))
                        \o EveryTokenExpanded(s, i + Len(m.whole))

\* C28: the SQL interpolate returns is the query's SQL with every occurrence
\* of a token of a registered macro, with or without brackets, replaced by
\* the expander's result for the comma-split, trimmed arguments of that
\* occurrence, and with all other text unchanged.
C28_EveryOccurrenceExpanded ==
    (InterpolateDone /\ TokenFreeOutputs(interp.sql))
        => interp.out = EveryTokenExpanded(interp.sql, 1)

\* C29: for a query whose expander outputs contain no macro token, the SQL
\* interpolate returned is the SQL it returns for every order in which the
\* macro table can be ranged over.
C29_SameSQLForEveryOrder ==
    (InterpolateDone /\ TokenFreeOutputs(interp.sql))
        => \A order \in Orders : interpolate(order, interp.sql) = interp.out

\* the second call of interpolate has returned
SecondPassDone == interp.pc = "again"
\* text s contains the sequence $__
HasDollarUnderscores(s) ==
    \E i \in 1..Len(s) : HasAt(s, <<"$", "_", "_">>, i)

\* C30, as stated: a second call of interpolate on the SQL the first call
\* returned, with the same macro table, returns that SQL unchanged.
C30_SecondPassChangesNothing ==
    SecondPassDone => interp.out2 = interp.out

\* C30, amended: when the SQL the first call returned contains no $__
\* sequence, a second call of interpolate on it, with the same macro table
\* and in whatever order, returns it unchanged.
C30_StableWithoutDollarUnderscores ==
    (SecondPassDone /\ ~HasDollarUnderscores(interp.out))
        => interp.out2 = interp.out

\* C30, its case: the first call has expanded $__time(time), its result has
\* no $__ left, and the second call has returned
C30_Witness ==
    /\ SecondPassDone
    /\ interp.sql = <<"$", "_", "_", "t", "i", "m", "e", "(", "t", "i", "m", "e", ")">>
    /\ interp.out = <<"T", "[", "t", "i", "m", "e", "]">>
    /\ ~HasDollarUnderscores(interp.out)
    /\ interp.out2 = interp.out

\* the request has been served and the driver's Connect was called for it
ForwardDone == forward.pc = "done" /\ forward.connects > 0

\* what the driver reads in the connection arguments it is given
Decoded(raw) == Unmarshal(raw)

\* C31: when ForwardHeaders is set, the connection arguments that reach the
\* driver's Connect decode to a JSON object that has every key of the query's
\* original connection arguments with its value and the key
\* grafana-http-headers with the headers of the request.
C31_ConnectSeesArgsAndHeaders ==
    (ForwardDone /\ forward.forward) =>
        LET seen == Decoded(forward.connArgs)
            original == Decoded(forward.args)
        IN  /\ ~seen.err /\ ~seen.isNil
            /\ HeaderKey \in DOMAIN seen.m
            /\ seen.m[HeaderKey] = forward.headers
            /\ \A k \in DOMAIN original.m \ {HeaderKey} :
                k \in DOMAIN seen.m /\ seen.m[k] = original.m[k]

\* handleQuery has returned frames and no error
ExecSucceeded == exec.pc = "returned" /\ exec.err = "nil"

Classified == classify.pc = "returned"

\* the lower-cased text of err contains an element of list
TextHasOneOf(err, list) ==
    \E i \in DOMAIN list : Contains(ToLower(err.text), list[i])

\* C33: ClassifyError maps nil to (plugin, nil); an error whose lower-cased
\* text contains "invalid memory address" or "nil pointer dereference", or a
\* connection-failure substring, an error that wraps ErrorRowValidation and
\* an error already marked downstream to downstream; every other error to
\* plugin.
C33_ClassifyErrorSources ==
    Classified =>
        LET err == classify.err
        IN  IF err.isNil
            THEN classify.source = "plugin" /\ classify.out = NoError
            ELSE classify.source =
                   IF \/ TextHasOneOf(err, genericDownstreamErrors)
                      \/ TextHasOneOf(err, pgxConnectionErrors)
                      \/ err.rowValidation
                      \/ err.downstream
                   THEN "downstream" ELSE "plugin"

\* an error that nothing marks, with the text "unexpected EOF" (so that only
\* its lower-cased text has a connection-failure substring), is downstream
C33_Witness ==
    /\ Classified
    /\ classify.err = ErrorValue(<<"u", "n", "e", "x", "p", "e", "c", "t", "e", "d", " ", "E", "O", "F">>,
                                 FALSE, FALSE)
    /\ classify.source = "downstream"

\* C34: when every attempt of a query has failed and the retries are used
\* up, the error in the query's response entry is the error of the last
\* attempt, not that of the first or of an earlier one.
C34_LastAttemptErrorReturned ==
    \A t \in ReturnedQueries :
        (/\ settings.Retries >= 1
         /\ task[t].attempts = settings.Retries + 1
         /\ Entry(t).Error \notin {NilErr, ErrorConnect})
            => Entry(t).Error.attempt = task[t].attempts

\* the step in which a retry of goroutine t succeeds, after attempts that all
\* reached the driver's execute and failed there with a retryable error
RetrySucceeds(t) ==
    /\ task[t].pc = "retryQueryDB"
    /\ task'[t].pc = "done"
    /\ task'[t].succeeded
    /\ task'[t].failedMatch

\* C35: if the driver's execute fails f times (0 < f <= Retries) with a
\* retryable query error and then succeeds, handleQuery has called execute
\* f + 1 times, returns the frames of the successful attempt with a nil error,
\* starts no attempt after the success, and leaves the handle the successful
\* attempt used stored under the cache key of the query.
C35_SuccessAfterRetries ==
    [][\A t \in Tasks :
         /\ RetrySucceeds(t) =>
              /\ task[t].execs = task[t].attempts
              /\ task[t].execs \in 1..settings.Retries
              /\ task'[t].execs = task[t].execs + 1
              /\ responses'[task[t].refID] = DataResponse(DataFrames, NilErr)
              /\ connections'[task[t].cacheKey].db = task[t].db
         /\ (task[t].pc = "done" /\ task[t].succeeded) =>
              task'[t].attempts = task[t].attempts]_vars

\* the step in which the driver's Connect fails inside the reconnect of
\* goroutine t (dbReconnect or Connector.Reconnect): no handle is opened
ReconnectFails(t) ==
    /\ task[t].pc \in {"dbReconnectConnect", "ReconnectConnect"}
    /\ task'[t].pc # task[t].pc
    /\ task'[t].opens = task[t].opens

\* C36: if the driver's Connect fails inside a reconnect for cache key K, the
\* cache does not go on serving a closed handle: after the failed reconnect
\* the handle stored under K, if there is one, has not been closed.
C36_FailedReconnectLeavesNoClosedHandle ==
    [][\A t \in Tasks :
         ReconnectFails(t) => connections'[task[t].cacheKey].db \notin closed']_vars

\* the step in which goroutine t calls QueryDB, and with it QueryContext, on
\* the handle it holds
CallsQueryDB(t) ==
    /\ task[t].pc \in {"QueryDB", "retryQueryDB"}
    /\ task'[t].attempts = task[t].attempts + 1

\* C37: in no interleaving of two queries on one cache key does the reconnect
\* of one close the handle the other executes its query on: a goroutine never
\* calls QueryContext on a handle that has already been closed.
C37_NoQueryOnClosedHandle ==
    [][\A t \in Tasks : CallsQueryDB(t) => task[t].db \notin closed]_vars

\* C38: when Connector.Dispose runs while a goroutine stores a handle (a miss
\* of GetConnectionFromQuery, or a Reconnect), in every interleaving each
\* handle that Dispose removes from the cache has been closed: the Clear
\* removes no handle that is still open.
C38_DisposeRemovesOnlyClosedHandles ==
    [][(lifecycle = "disposing" /\ lifecycle' = "disposed") =>
         \A h \in CachedHandles(connections) \ CachedHandles(connections') :
             h \in closed']_vars

\* the step in which Connector.Connect of goroutine t returns after at least
\* one reconnect that opened a handle
ConnectReturnsAfterReconnect(t) ==
    /\ task[t].op = "Connect"
    /\ task[t].pc # "done"
    /\ task'[t].pc = "done"
    /\ settings.Retries > 0
    /\ task'[t].opens >= 1

\* C39: Connector.Connect with Retries > 0 reconnects under the default cache
\* key: when it returns, the default key holds the handle its last reconnect
\* opened, that handle has not been closed, and no other key of the cache has
\* been written.
C39_ConnectReconnectsUnderDefaultKey ==
    [][\A t \in Tasks :
         ConnectReturnsAfterReconnect(t) =>
            /\ connections'[datasourceCacheKey(UID, emptyConnArgs)].db
                  = <<t, task'[t].opens>>
            /\ <<t, task'[t].opens>> \notin closed'
            /\ connections'[BareUIDKey] = NoConn]_vars

\* handleQuery has ended, by a return or by a panic
TimedOver == timed.pc \in {"returned", "panicked"}

\* C40: handleQuery makes the timeout context once per query, before the
\* first attempt; the first attempt and every retry are given that one
\* context and neither a reconnect nor a pause makes another, so that an
\* attempt begun after the deadline has passed has no fresh deadline and
\* returns no frames; and the cancel function of the context has been called
\* when handleQuery ends, on every path.
C40_OneTimeoutContextPerQuery ==
    /\ timed.created <= 1
    /\ timed.used # <<>> => timed.created = (IF timed.timeout THEN 1 ELSE 0)
    /\ \A n \in 1..Len(timed.used) :
         /\ timed.used[n].ctx = IF timed.timeout THEN "tctx" ELSE "parent"
         /\ (n > 1 /\ timed.used[n - 1].late) => timed.used[n].late
    /\ (TimedOver /\ timed.used # <<>> /\ timed.used[Len(timed.used)].late)
          => timed.result # "frames"
    /\ TimedOver => (timed.released <=> timed.created = 1)
    /\ ~TimedOver => ~timed.released

\* a query with a timeout whose deadline passed during its first attempt has
\* made both retries under the expired context and has returned without frames
C40_Witness ==
    /\ timed.pc = "returned"
    /\ timed.timeout /\ timed.released
    /\ Len(timed.used) = 3
    /\ ~timed.used[1].late /\ timed.used[2].late /\ timed.used[3].late
    /\ timed.result = "error"

\* ------------------------------------------------------------------- Next
Next ==
    \/ NewDatasource
    \/ DisposeDatasource
    \/ QueryData
    \/ QueryDataReturn
    \/ CancelRequest
    \/ \E t \in Tasks :
         \/ HandleQueryBegin(t)
         \/ InterpolateRace(t)
         \/ HandleQueryConnect(t)
         \/ HandleQueryDB(t)
         \/ DbReconnectClose(t)
         \/ DbReconnectConnect(t)
         \/ HandleQueryRetry(t)
    \/ NewConnector
    \/ \E k \in Keys : ConnectorDisposeRange(k)
    \/ ConnectorDisposeClear
    \/ \E t \in Tasks :
         \/ GetConnectionFromQuery(t)
         \/ GetConnectionFromQueryConnect(t)
         \/ ConnectorConnect(t)
         \/ ReconnectClose(t)
         \/ ReconnectConnect(t)
         \/ ConnectorPing(t)

Spec == Init /\ [][Next]_vars

====
